---- MODULE Spec2Model ----
(***************************************************************************)
(* WordOps: site-type resolution (detSitePar / determine_site_type), the   *)
(* `wo site create` provisioning pipeline with its cleanup-on-failure, and *)
(* the advisory file locks of `wo site autoupdate run`.                    *)
(***************************************************************************)
EXTENDS Integers, Sequences, FiniteSets, TLC

(***************************************************************************)
(* Bounds of the model                                                     *)
(***************************************************************************)
\* largest number of option flags active on one command line
MaxFlags == 4

(***************************************************************************)
(* Option tables (site_functions.py)                                       *)
(***************************************************************************)
SUPPORTED_VERSIONS == <<"php74", "php80", "php81", "php82", "php83", "php84">>

PhpVersionSet == {SUPPORTED_VERSIONS[i] : i \in 1..Len(SUPPORTED_VERSIONS)}

TYPE_OPTIONS == {"html", "php", "mysql", "wp", "wpsubdir", "wpsubdomain"}
                  \cup PhpVersionSet

CACHE_OPTIONS == {"wpfc", "wpsc", "wpredis", "wprocket", "wpce"}

WpFamily == {"wp", "wpsubdir", "wpsubdomain"}

\* Python's None
None == "None"

is_php_version(option) == option \in PhpVersionSet

\* the option sets a command line of at most n active flags can carry
FlagSets(n) == {s \in SUBSET (TYPE_OPTIONS \cup CACHE_OPTIONS) : Cardinality(s) <= n}

\* the command lines the resolver is called with
ResolveFlagSets == FlagSets(MaxFlags)

(***************************************************************************)
(* Strings are sequences of one-character strings.                         *)
(***************************************************************************)
IsSpace(c) == c = " "

RECURSIVE LStrip(_)
LStrip(s) == IF s # <<>> /\ IsSpace(Head(s)) THEN LStrip(Tail(s)) ELSE s

RECURSIVE RStrip(_)
RStrip(s) == IF s # <<>> /\ IsSpace(s[Len(s)])
             THEN RStrip(SubSeq(s, 1, Len(s) - 1)) ELSE s

\* str.strip()
Strip(s) == RStrip(LStrip(s))

\* variant: the value is never split
SplitColon_unsplit(s) == <<s>>

\* str.split(':') : every piece between colons, empty pieces kept
RECURSIVE SplitColon(_)
SplitColon(s) ==
    IF \A i \in 1..Len(s) : s[i] # ":"
    THEN <<s>>
    ELSE LET k == CHOOSE i \in 1..Len(s) :
                      s[i] = ":" /\ \A j \in 1..(i - 1) : s[j] # ":"
         IN <<SubSeq(s, 1, k - 1)>> \o SplitColon(SubSeq(s, k + 1, Len(s)))

(***************************************************************************)
(* detSitePar and its helpers.  opts is the set of options whose value is  *)
(* true.  A result is [err, stype, cache]; err stands for RuntimeError.    *)
(***************************************************************************)
ResolveError == [err |-> TRUE, stype |-> None, cache |-> None]

Resolved(t, c) == [err |-> FALSE, stype |-> t, cache |-> c]

\* variant: a PHP version with a cache flag keeps the version as site type
_handle_single_type_keeps_version(typelist, cachetype) ==
    IF typelist = {}
    THEN IF cachetype = "basic" THEN Resolved(None, None)
                                ELSE Resolved("wp", cachetype)
    ELSE Resolved(CHOOSE t \in typelist : TRUE, cachetype)

_handle_single_type(typelist, cachetype) ==
    IF typelist = {}
    THEN IF cachetype = "basic" THEN Resolved(None, None)
                                ELSE Resolved("wp", cachetype)
    ELSE LET sitetype == CHOOSE t \in typelist : TRUE
         IN IF is_php_version(sitetype) /\ cachetype # "basic"
            THEN Resolved("wp", cachetype)
            ELSE Resolved(sitetype, cachetype)

\* variant: only the mysql entries are added for a PHP version
PhpCombinations_mysql_only(v) ==
    << <<{v, "mysql", "html"}, "mysql">>,
       <<{v, "mysql"}, "mysql">> >>

\* the five table entries added for one PHP version
PhpCombinations(v) ==
    << <<{v, "mysql", "html"}, "mysql">>,
       <<{v, "mysql"}, "mysql">>,
       <<{"wp", v}, "wp">>,
       <<{"wpsubdir", v}, "wpsubdir">>,
       <<{"wpsubdomain", v}, "wpsubdomain">> >>

RECURSIVE ExtendCombinations(_, _)
ExtendCombinations(table, i) ==
    IF i > Len(SUPPORTED_VERSIONS) THEN table
    ELSE ExtendCombinations(table \o PhpCombinations(SUPPORTED_VERSIONS[i]), i + 1)

combinations ==
    ExtendCombinations(
      << <<{"php", "mysql", "html"}, "mysql">>,
         <<{"html", "mysql"}, "mysql">>,
         <<{"php", "mysql"}, "mysql">>,
         <<{"php", "html"}, "php">>,
         <<{"wp", "wpsubdir"}, "wpsubdir">>,
         <<{"wp", "wpsubdomain"}, "wpsubdomain">> >>, 1)

\* variant: an unmatched combination falls back to the first type given
_handle_multiple_types_fallback(typelist, cachetype) ==
    LET hits == {i \in 1..Len(combinations) : typelist \subseteq combinations[i][1]}
    IN IF hits = {} THEN Resolved(CHOOSE t \in typelist : TRUE, cachetype)
       ELSE LET first == CHOOSE i \in hits : \A j \in hits : i <= j
            IN Resolved(combinations[first][2], cachetype)

\* variant: the cache flag is kept only for a WordPress result
_handle_multiple_types_wp_cache_only(typelist, cachetype) ==
    LET hits == {i \in 1..Len(combinations) : typelist \subseteq combinations[i][1]}
    IN IF hits = {} THEN ResolveError
       ELSE LET first == CHOOSE i \in hits : \A j \in hits : i <= j
                t     == combinations[first][2]
            IN Resolved(t, IF t \in WpFamily THEN cachetype ELSE "basic")

_handle_multiple_types(typelist, cachetype) ==
    LET hits == {i \in 1..Len(combinations) : typelist \subseteq combinations[i][1]}
    IN IF hits = {} THEN ResolveError
       ELSE LET first == CHOOSE i \in hits : \A j \in hits : i <= j
            IN Resolved(combinations[first][2], cachetype)

detSitePar(opts) ==
    LET typelist  == opts \cap TYPE_OPTIONS
        cachelist == opts \cap CACHE_OPTIONS
        cachetype == IF cachelist = {} THEN "basic"
                     ELSE CHOOSE c \in cachelist : TRUE
    IN IF Cardinality(cachelist) > 1 THEN ResolveError
       ELSE IF Cardinality(typelist) <= 1
            THEN _handle_single_type(typelist, cachetype)
            ELSE _handle_multiple_types(typelist, cachetype)

(***************************************************************************)
(* determine_site_type.  proxy, alias and subsiteof are None or a string   *)
(* (for proxy: the first word of the nargs='+' list).  A result is         *)
(* [err, stype, cache, extra]; err stands for SiteError.                   *)
(***************************************************************************)
\* truth value Python gives the option: the proxy list is never empty,
\* alias and subsiteof are true when the string is not empty
\* variant: the proxy option is never seen
ProxyGiven_never(v) == FALSE

ProxyGiven(v) == v # None

StrGiven(v) == v # None /\ v # <<>>

ClassifyError == [err |-> TRUE, stype |-> None, cache |-> None, extra |-> <<>>]

Classified(t, c, x) == [err |-> FALSE, stype |-> t, cache |-> c, extra |-> x]

determine_site_type(opts, proxy, alias, subsiteof) ==
    LET r == detSitePar(opts)
    IN IF r.err THEN ClassifyError
       ELSE IF r.stype = None /\ ProxyGiven(proxy)
       THEN LET proxyinfo == Strip(proxy)
                parts     == SplitColon(proxyinfo)
            IN IF proxyinfo = <<>> THEN ClassifyError
               ELSE Classified("proxy", "",
                      << Strip(parts[1]),
                         IF Len(parts) < 2 THEN <<"8", "0">> ELSE Strip(parts[2]) >>)
       ELSE IF r.stype = None /\ StrGiven(alias)
       THEN IF Strip(alias) = <<>> THEN ClassifyError
            ELSE Classified("alias", "", <<Strip(alias)>>)
       ELSE IF r.stype = None /\ StrGiven(subsiteof)
       THEN IF Strip(subsiteof) = <<>> THEN ClassifyError
            ELSE Classified("subsite", "", <<Strip(subsiteof)>>)
       ELSE IF r.stype = None
       THEN Classified("html", "basic", <<>>)
       ELSE IF ProxyGiven(proxy) \/ StrGiven(alias) \/ StrGiven(subsiteof)
       THEN ClassifyError
       ELSE Classified(r.stype, r.cache, <<>>)

(***************************************************************************)
(* `wo site create` (WOSiteCreateController.default).                      *)
(*                                                                         *)
(* Resources of the domain being created: res.vhost is the file            *)
(* /etc/nginx/sites-available/<domain>, res.webroot the directory          *)
(* /var/www/<domain>, res.db and res.dbuser the MySQL database and user    *)
(* made by the run, res.pool the PHP-FPM pool (system user, config files,  *)
(* service unit) of the domain.  registry is the sitedb row of the domain. *)
(***************************************************************************)
\* largest number of option flags on a `site create` command line
MaxCreateFlags == 2

VARIABLES
    cpc,        \* position of default(): the step that runs next
    res,        \* the domain's resources on the host
    registry,   \* the domain's sitedb entry, or NoEntry
    parent,     \* registry state of the --subsiteof parent site
    cfgPhp,     \* wo.conf has a [php] section naming a supported version
    pre,        \* res and registry as they were when the command started
    clsErr,     \* determine_site_type raised SiteError
    stype,      \* site type (local variable stype)
    cache,      \* cache type (local variable cache)
    phpFlag,    \* a --phpNN flag is active
    phpBound,   \* the local variable php_version has been assigned
    data,       \* the keys of the data dict that steer the pipeline
    calls,      \* operations invoked so far, in order
    failed      \* the step that failed, or "none"

createVars == <<cpc, res, registry, parent, cfgPhp, pre, clsErr, stype, cache,
                phpFlag, phpBound, data, calls, failed>>

\* inputs and results of the resolver and classifier calls
VARIABLES
    in_opts,       \* the active option flags
    in_proxy,      \* pargs.proxy[0], or None
    in_alias,      \* pargs.alias, or None
    in_subsiteof,  \* pargs.subsiteof, or None
    out_par,       \* what detSitePar returned, or NotCalled
    out_type       \* what determine_site_type returned, or NotCalled

resolveVars == <<in_opts, in_proxy, in_alias, in_subsiteof, out_par, out_type>>

\* the autoupdate runners and their lock files
VARIABLES
    lockFile,   \* the file at each lock path
    alive,      \* pids of the processes that exist
    now,        \* time.time()
    upc,        \* position of each runner in run()
    upath,      \* the path its _acquire_lock call works on
    uread,      \* pid and ts it read from the existing lock file
    utargets,   \* targets it has still to process
    usite,      \* the target it is at, 0 outside the loop
    usitelock,  \* its local variable site_lock (NoLock or a path)
    uexit,      \* a SystemExit is propagating through its finally blocks
    uheld,      \* per path: the time its acquire returned True, 0 if not held
    usummary,   \* its summary['sites']
    overheld    \* a live runner has held some lock for longer than max_age_sec

lockVars == <<lockFile, alive, now, upc, upath, uread, utargets, usite,
              usitelock, uexit, uheld, usummary, overheld>>

VARIABLES
    npc,        \* which derivation has run: "ready", "db", "pool" or "random"
    n_domain,   \* the domain a name is derived for
    n_typed,    \* what the operator typed at the database-name prompt
    n_exists,   \* check_db_exists answered True for the candidate
    db_out,     \* database name and user that were provisioned
    p_cmd,      \* the command that builds the context: create, clone, restore
    p_php,      \* 'wo_php' is in the data dict
    pool_out,   \* pool_name and php_fpm_user of the build context
    g_length,   \* generate_random: length
    g_charset,  \* generate_random: charset
    g_picks,    \* the charset positions random.sample drew
    g_out       \* generate_random: result

nameVars == <<npc, n_domain, n_typed, n_exists, db_out, p_cmd, p_php, pool_out,
              g_length, g_charset, g_picks, g_out>>

\* one autoupdate run, taken call by call, and the lock files it meets
VARIABLES
    rpc,        \* position of run()
    rfiles,     \* the file at each lock path
    rdry,       \* pargs.dry_run
    rnovisual,  \* pargs.no_visual
    rtargets,   \* targets still to process
    rsite,      \* the target the loop is at, 0 outside the loop
    rsitelock,  \* the local variable site_lock (NoLock or a path)
    rexit,      \* a SystemExit is propagating through the finally blocks
    rheld,      \* paths for which _acquire_lock returned True, not yet released
    racq,       \* the last _acquire_lock call: file before, result, file after
    rops,       \* backups, updates and restores done so far, in order
    rsummary    \* summary['sites']

runVars == <<rpc, rfiles, rdry, rnovisual, rtargets, rsite, rsitelock, rexit,
             rheld, racq, rops, rsummary>>

\* `wo site clone`: the destination site
VARIABLES
    kpc,        \* position of default(): the step that runs next
    kres,       \* the destination's resources on the host
    kreg,       \* the destination has a sitedb entry
    ksrc,       \* site type of the source site
    kfailed     \* the step that failed, or "none"

cloneVars == <<kpc, kres, kreg, ksrc, kfailed>>

vars == <<createVars, resolveVars, lockVars, nameVars, runVars, cloneVars>>

NoEntry == [present |-> FALSE, stype |-> None, cache |-> None, db |-> FALSE]

\* an entry some earlier run left for the domain
OldEntry == [present |-> TRUE, stype |-> "html", cache |-> "basic", db |-> FALSE]

\* the command lines site create is called with
CreateFlagSets == FlagSets(MaxCreateFlags)

\* getSiteInfo(subsiteof_name): no row, or a row with is_enabled and site_type
NoParent == [present |-> FALSE, is_enabled |-> FALSE, site_type |-> None]

ParentStates == {NoParent} \cup [present : {TRUE}, is_enabled : BOOLEAN,
                                 site_type : {"html", "wp", "wpsubdir", "wpsubdomain"}]

\* variant: the parent's is_enabled is not looked at
ParentEligible_ignoring_enabled(par) ==
    /\ par.present
    /\ par.site_type \in {"wpsubdomain", "wpsubdir"}

\* site_create.py 189-198: the three checks on the parent of a subsite
ParentEligible(par) ==
    /\ par.present
    /\ par.is_enabled
    /\ par.site_type \in {"wpsubdomain", "wpsubdir"}

SpecialKinds == {"proxy", "alias", "subsite"}

\* values of --proxy / --alias / --subsiteof tried by site create
CreateSpecials == {None, <<" ">>, <<"h">>}

NoData == [kind |-> "normal", wp |-> FALSE, dbkeys |-> FALSE, wo_db_name |-> FALSE,
           wo_mysql_grant_host |-> FALSE, php_ver |-> FALSE]

\* forward actions of the provisioning steps
Forward == {"setupdomain", "addNewSite", "reload_service", "setupdatabase",
            "updateSiteInfo", "wo-config", "setupwordpress", "setup_php_fpm",
            "setwebrootpermissions", "success"}

\* Log.error(msg): prints the message and ends the process with exit code 1
LogError == "exited"

\* an exception nothing catches ends the process with a traceback
Unhandled == "crashed"

Terminated == cpc \in {"exited", "crashed", "done"}

(***************************************************************************)
(* Cleanup helpers (site_functions.py)                                     *)
(***************************************************************************)
\* removeNginxConf: only when the vhost file is there
removeNginxConf(r) == IF r.vhost THEN [r EXCEPT !.vhost = FALSE] ELSE r

\* deleteWebRoot: only when the directory is there
deleteWebRoot(r) == IF r.webroot THEN [r EXCEPT !.webroot = FALSE] ELSE r

\* deleteDB: drop the database if it exists, then drop the user
deleteDB(r) == [r EXCEPT !.db = FALSE, !.dbuser = FALSE]

\* doCleanupAction(domain=..., webroot=..., dbname=..., dbuser=..., dbhost=...):
\* each argument is TRUE when the caller passes a non-empty value;
\* dbuser and dbhost are passed whenever dbname is
doCleanupAction(r, domain, webroot, dbname) ==
    LET r1 == IF domain THEN removeNginxConf(r) ELSE r
        r2 == IF webroot THEN deleteWebRoot(r1) ELSE r1
    IN IF dbname THEN deleteDB(r2) ELSE r2

\* variant: the database is dropped first, the vhost and the webroot after it
CleanupCalls_db_first(r, domain, webroot, dbname) ==
    (IF dbname THEN <<"deleteDB">> ELSE <<>>)
      \o (IF domain /\ r.vhost THEN <<"removeNginxConf">> ELSE <<>>)
      \o (IF webroot THEN <<"deleteWebRoot">> ELSE <<>>)

\* the operations doCleanupAction invokes, in order
CleanupCalls(r, domain, webroot, dbname) ==
    (IF domain /\ r.vhost THEN <<"removeNginxConf">> ELSE <<>>)
      \o (IF webroot THEN <<"deleteWebRoot">> ELSE <<>>)
      \o (IF dbname THEN <<"deleteDB">> ELSE <<>>)

deleteSiteInfo(reg) == NoEntry

\* handle_site_error_cleanup(domain, webroot, db_name, db_user, db_host):
\* the database is cleaned only when the caller's data holds its name
handle_site_error_cleanup(r, db_name) ==
    [res   |-> doCleanupAction(doCleanupAction(r, TRUE, TRUE, FALSE), TRUE, FALSE, db_name),
     reg   |-> deleteSiteInfo(registry),
     calls |-> CleanupCalls(r, TRUE, TRUE, FALSE)
                 \o CleanupCalls(doCleanupAction(r, TRUE, TRUE, FALSE), TRUE, FALSE, db_name)
                 \o <<"deleteSiteInfo">>,
     pc    |-> LogError]

\* variant: the except-blocks clean the vhost and the webroot only
late_failure_cleanup_without_db(r, d) ==
    [res   |-> doCleanupAction(r, TRUE, TRUE, FALSE),
     reg   |-> deleteSiteInfo(registry),
     calls |-> CleanupCalls(r, TRUE, TRUE, FALSE) \o <<"deleteSiteInfo">>,
     pc    |-> LogError]

\* the except-blocks of setup_php_fpm, the nginx reload and
\* setwebrootpermissions (site_create.py 458-473, 475-491, 501-517)
late_failure_cleanup(r, d) ==
    LET r1 == doCleanupAction(r, TRUE, TRUE, FALSE)
        c1 == CleanupCalls(r, TRUE, TRUE, FALSE)
    IN IF d.dbkeys /\ ~d.wo_mysql_grant_host
       THEN \* data['wo_mysql_grant_host'] raises KeyError
            [res |-> r1, reg |-> registry, calls |-> c1, pc |-> Unhandled]
       ELSE [res   |-> IF d.dbkeys THEN doCleanupAction(r1, TRUE, FALSE, d.wo_db_name) ELSE r1,
             reg   |-> deleteSiteInfo(registry),
             calls |-> c1 \o (IF d.dbkeys THEN CleanupCalls(r1, TRUE, FALSE, d.wo_db_name)
                                          ELSE <<>>)
                         \o <<"deleteSiteInfo">>,
             pc    |-> LogError]

(***************************************************************************)
(* setupdatabase: outcome "ok", or the statement that fails                *)
(***************************************************************************)
DbOutcomes == {"ok", "connect", "create_db", "create_user", "grant"}

setupdatabase(r, d, outcome) ==
    [res  |-> [r EXCEPT !.db = outcome \in {"ok", "create_user", "grant"},
                        !.dbuser = outcome \in {"ok", "grant"}],
     data |-> IF outcome = "ok"
              THEN [d EXCEPT !.wo_db_name = TRUE, !.wo_mysql_grant_host = TRUE]
              ELSE d,
     err  |-> outcome # "ok"]

(***************************************************************************)
(* Steps of default()                                                      *)
(***************************************************************************)
CreateInit ==
    /\ cpc = "start"
    /\ res \in [vhost : BOOLEAN, webroot : BOOLEAN, db : {FALSE},
                dbuser : {FALSE}, pool : {FALSE}]
    /\ registry \in {NoEntry, OldEntry}
    /\ parent \in ParentStates
    /\ cfgPhp \in BOOLEAN
    /\ pre = [res |-> res, registry |-> registry]
    /\ clsErr = FALSE
    /\ stype = None
    /\ cache = None
    /\ phpFlag = FALSE
    /\ phpBound = FALSE
    /\ data = NoData
    /\ calls = <<>>
    /\ failed = "none"

\* what determine_site_type can return on the command lines of site create,
\* each result with whether a --phpNN flag was active
CreateClassifications ==
    {[cls |-> determine_site_type(opts, proxy, alias, subsiteof),
      php |-> (opts \cap PhpVersionSet # {})] :
        opts \in CreateFlagSets, proxy \in CreateSpecials,
        alias \in CreateSpecials, subsiteof \in CreateSpecials}

\* site_create.py 149-156: determine_site_type, Log.error on SiteError
DetermineSiteType ==
    /\ cpc = "start"
    /\ \E c \in CreateClassifications :
         /\ clsErr' = c.cls.err
         /\ stype' = c.cls.stype
         /\ cache' = c.cls.cache
         /\ phpFlag' = c.php
         /\ cpc' = IF c.cls.err THEN LogError ELSE "validate"
         /\ failed' = IF c.cls.err THEN "determine_site_type" ELSE failed
    /\ UNCHANGED <<res, registry, parent, cfgPhp, pre, phpBound, data, calls>>
    /\ UNCHANGED <<resolveVars, lockVars, nameVars, runVars, cloneVars>>

\* variant: only the registry is consulted, not the vhost file
ValidateDomain_registry_only ==
    /\ cpc = "validate"
    /\ IF registry.present
       THEN cpc' = LogError /\ failed' = "validate_domain"
       ELSE cpc' = "build" /\ failed' = failed
    /\ UNCHANGED <<res, registry, parent, cfgPhp, pre, clsErr, stype, cache,
                   phpFlag, phpBound, data, calls>>
    /\ UNCHANGED <<resolveVars, lockVars, nameVars, runVars, cloneVars>>

\* _validate_domain_and_setup (site_create.py 126-145)
ValidateDomain ==
    /\ cpc = "validate"
    /\ IF registry.present \/ res.vhost
       THEN cpc' = LogError /\ failed' = "validate_domain"
       ELSE cpc' = "build" /\ failed' = failed
    /\ UNCHANGED <<res, registry, parent, cfgPhp, pre, clsErr, stype, cache,
                   phpFlag, phpBound, data, calls>>
    /\ UNCHANGED <<resolveVars, lockVars, nameVars, runVars, cloneVars>>

\* the data dict default() builds for the site type (site_create.py 171-300)
BuildDataDict ==
    [kind   |-> IF stype \in SpecialKinds THEN stype ELSE "normal",
     wp     |-> stype \in WpFamily,
     dbkeys |-> stype \in {"mysql"} \cup WpFamily,
     wo_db_name |-> FALSE,
     wo_mysql_grant_host |-> FALSE,
     \* 'wo_php' is set from the --phpNN flag, else from wo.conf; a subsite
     \* has it from its parent already
     php_ver |-> phpFlag \/ cfgPhp \/ stype = "subsite"]

\* site_create.py 171-300: parent checks of a subsite, then the data dict
BuildData ==
    /\ cpc = "build"
    /\ IF stype = "subsite" /\ ~ParentEligible(parent)
       THEN /\ cpc' = LogError
            /\ failed' = "parent_check"
            /\ UNCHANGED <<data, phpBound>>
       ELSE /\ cpc' = "prerun"
            /\ data' = BuildDataDict
            /\ phpBound' = (phpFlag \/ cfgPhp)
            /\ failed' = failed
    /\ UNCHANGED <<res, registry, parent, cfgPhp, pre, clsErr, stype, cache,
                   phpFlag, calls>>
    /\ UNCHANGED <<resolveVars, lockVars, nameVars, runVars, cloneVars>>

\* site_create.py 305-309: pre_run_checks (nginx -t)
PreRunChecks ==
    /\ cpc = "prerun"
    /\ \E ok \in BOOLEAN :
         IF ok THEN cpc' = "setupdomain" /\ failed' = failed
               ELSE cpc' = LogError /\ failed' = "pre_run_checks"
    /\ UNCHANGED <<res, registry, parent, cfgPhp, pre, clsErr, stype, cache,
                   phpFlag, phpBound, data, calls>>
    /\ UNCHANGED <<resolveVars, lockVars, nameVars, runVars, cloneVars>>

\* setupdomain: how far it gets before it raises SiteError
DomainOutcomes == {"ok", "render", "nginx_test", "webroot"}

setupdomain(r, outcome) ==
    [r EXCEPT !.vhost   = IF outcome = "render" THEN r.vhost ELSE TRUE,
              !.webroot = IF outcome \in {"ok", "webroot"} THEN TRUE ELSE r.webroot]

\* variant: the cleanup helper returns to default() instead of ending the run
SetupDomain_cleanup_returns ==
    /\ cpc = "setupdomain"
    /\ \E outcome \in DomainOutcomes :
         LET r1 == setupdomain(res, outcome)
             h  == handle_site_error_cleanup(r1, FALSE)
         IN IF outcome = "ok"
            THEN /\ res' = r1
                 /\ calls' = Append(calls, "setupdomain")
                 /\ cpc' = "addsite"
                 /\ UNCHANGED <<registry, failed>>
            ELSE /\ res' = h.res
                 /\ registry' = h.reg
                 /\ calls' = Append(calls, "setupdomain") \o h.calls
                 /\ cpc' = "addsite"
                 /\ failed' = "setupdomain"
    /\ UNCHANGED <<parent, cfgPhp, pre, clsErr, stype, cache, phpFlag, phpBound, data>>
    /\ UNCHANGED <<resolveVars, lockVars, nameVars, runVars, cloneVars>>

\* site_create.py 311-322
SetupDomain ==
    /\ cpc = "setupdomain"
    /\ \E outcome \in DomainOutcomes :
         LET r1 == setupdomain(res, outcome)
             h  == handle_site_error_cleanup(r1, FALSE)
         IN IF outcome = "ok"
            THEN /\ res' = r1
                 /\ calls' = Append(calls, "setupdomain")
                 /\ cpc' = "addsite"
                 /\ UNCHANGED <<registry, failed>>
            ELSE /\ res' = h.res
                 /\ registry' = h.reg
                 /\ calls' = Append(calls, "setupdomain") \o h.calls
                 /\ cpc' = h.pc
                 /\ failed' = "setupdomain"
    /\ UNCHANGED <<parent, cfgPhp, pre, clsErr, stype, cache, phpFlag, phpBound, data>>
    /\ UNCHANGED <<resolveVars, lockVars, nameVars, runVars, cloneVars>>

addNewSite == [present |-> TRUE, stype |-> stype, cache |-> cache, db |-> FALSE]

\* variant: the pool is configured right after the registry entry
AfterAddSite_pool_first(kind) == IF kind = "normal" THEN "pool" ELSE "special_reload"

\* site_create.py 326, 390: the step that follows addNewSite
AfterAddSite(kind) == IF kind = "normal" THEN "database" ELSE "special_reload"

\* site_create.py 324-325, 344-345, 364-365, 384-388
AddSite ==
    /\ cpc = "addsite"
    /\ IF data.kind = "normal" /\ ~phpBound
       THEN \* `if not php_version` reads an unassigned local
            /\ cpc' = Unhandled
            /\ failed' = "php_version"
            /\ UNCHANGED <<registry, calls>>
       ELSE /\ registry' = addNewSite
            /\ calls' = Append(calls, "addNewSite")
            /\ cpc' = AfterAddSite(data.kind)
            /\ failed' = failed
    /\ UNCHANGED <<res, parent, cfgPhp, pre, clsErr, stype, cache, phpFlag,
                   phpBound, data>>
    /\ UNCHANGED <<resolveVars, lockVars, nameVars, runVars, cloneVars>>

\* site_create.py 326-342 (and the alias and subsite copies): nginx reload of
\* a proxy, alias or subsite site
SpecialReload ==
    /\ cpc = "special_reload"
    /\ \E ok \in BOOLEAN :
         IF ok
         THEN /\ calls' = calls \o <<"reload_service", "success">>
              /\ cpc' = "database"
              /\ UNCHANGED <<res, registry, failed>>
         ELSE /\ res' = doCleanupAction(res, TRUE, FALSE, FALSE)
              /\ registry' = deleteSiteInfo(registry)
              /\ calls' = Append(calls, "reload_service")
                            \o CleanupCalls(res, TRUE, FALSE, FALSE)
                            \o <<"deleteSiteInfo">>
              /\ cpc' = LogError
              /\ failed' = "reload_service"
    /\ UNCHANGED <<parent, cfgPhp, pre, clsErr, stype, cache, phpFlag, phpBound, data>>
    /\ UNCHANGED <<resolveVars, lockVars, nameVars, runVars, cloneVars>>

updateSiteInfo(reg) == [reg EXCEPT !.db = TRUE]

\* site_create.py 390-404: database of a mysql site
SetupDatabase ==
    /\ cpc = "database"
    /\ IF data.dbkeys /\ ~data.wp
       THEN \E outcome \in DbOutcomes :
              LET s == setupdatabase(res, data, outcome)
                  h == handle_site_error_cleanup(s.res, data.wo_db_name)
              IN IF ~s.err
                 THEN /\ res' = s.res
                      /\ data' = s.data
                      /\ registry' = updateSiteInfo(registry)
                      /\ calls' = calls \o <<"setupdatabase", "updateSiteInfo">>
                      /\ cpc' = "woconfig"
                      /\ failed' = failed
                 ELSE /\ res' = h.res
                      /\ data' = data
                      /\ registry' = h.reg
                      /\ calls' = Append(calls, "setupdatabase") \o h.calls
                      /\ cpc' = h.pc
                      /\ failed' = "setupdatabase"
       ELSE /\ cpc' = "wordpress"
            /\ UNCHANGED <<res, data, registry, calls, failed>>
    /\ UNCHANGED <<parent, cfgPhp, pre, clsErr, stype, cache, phpFlag, phpBound>>
    /\ UNCHANGED <<resolveVars, lockVars, nameVars, runVars, cloneVars>>

\* site_create.py 406-425: wo-config.php of a mysql site
WriteWoConfig ==
    /\ cpc = "woconfig"
    /\ \E ok \in BOOLEAN :
         LET h == handle_site_error_cleanup(res, data.wo_db_name)
         IN IF ok
            THEN /\ stype' = "mysql"
                 /\ calls' = Append(calls, "wo-config")
                 /\ cpc' = "wordpress"
                 /\ UNCHANGED <<res, registry, failed>>
            ELSE /\ res' = h.res
                 /\ registry' = h.reg
                 /\ calls' = Append(calls, "wo-config") \o h.calls
                 /\ cpc' = h.pc
                 /\ failed' = "wo-config"
                 /\ stype' = stype
    /\ UNCHANGED <<parent, cfgPhp, pre, clsErr, cache, phpFlag, phpBound, data>>
    /\ UNCHANGED <<resolveVars, lockVars, nameVars, runVars, cloneVars>>

\* setupwordpress: the database step it runs first fails, or a later step
\* (download, wp-config, core install) fails
WpOutcomes == DbOutcomes \cup {"install"}

\* the part of setupwordpress that raised SiteError
WpFailure(outcome) == IF outcome = "install" THEN "setupwordpress" ELSE "setupwordpress_db"

\* site_create.py 427-452
SetupWordpress ==
    /\ cpc = "wordpress"
    /\ IF data.wp
       THEN \E outcome \in WpOutcomes :
              LET s == setupdatabase(res, data, IF outcome = "install" THEN "ok" ELSE outcome)
              IN IF outcome = "ok"
                 THEN /\ res' = s.res
                      /\ data' = s.data
                      /\ registry' = updateSiteInfo(registry)
                      /\ calls' = calls \o <<"setupdatabase", "setupwordpress", "updateSiteInfo">>
                      /\ cpc' = "pool"
                      /\ failed' = failed
                 ELSE IF ~s.data.wo_mysql_grant_host
                 THEN \* the handler reads data['wo_mysql_grant_host']: KeyError
                      /\ res' = s.res
                      /\ data' = s.data
                      /\ registry' = registry
                      /\ calls' = Append(calls, "setupdatabase")
                      /\ cpc' = Unhandled
                      /\ failed' = WpFailure(outcome)
                 ELSE /\ res' = doCleanupAction(s.res, TRUE, TRUE, s.data.wo_db_name)
                      /\ data' = s.data
                      /\ registry' = deleteSiteInfo(registry)
                      /\ calls' = calls \o <<"setupdatabase", "setupwordpress">>
                                    \o CleanupCalls(s.res, TRUE, TRUE, s.data.wo_db_name)
                                    \o <<"deleteSiteInfo">>
                      /\ cpc' = LogError
                      /\ failed' = WpFailure(outcome)
       ELSE /\ cpc' = "pool"
            /\ UNCHANGED <<res, data, registry, calls, failed>>
    /\ UNCHANGED <<parent, cfgPhp, pre, clsErr, stype, cache, phpFlag, phpBound>>
    /\ UNCHANGED <<resolveVars, lockVars, nameVars, runVars, cloneVars>>

\* setup_php_fpm: "ok", or it raises SiteError before ("early") or after
\* ("late") it has created the pool's user, log directory or config files
PoolOutcomes == {"ok", "early", "late"}

setup_php_fpm(r, outcome) == [r EXCEPT !.pool = (outcome # "early")]

\* site_create.py 456-473: setup_php_fpm returns at once without 'php_ver'
SetupPhpFpm ==
    /\ cpc = "pool"
    /\ IF data.php_ver
       THEN \E outcome \in PoolOutcomes :
              LET r1 == setup_php_fpm(res, outcome)
                  h  == late_failure_cleanup(r1, data)
              IN IF outcome = "ok"
                 THEN /\ res' = r1
                      /\ calls' = Append(calls, "setup_php_fpm")
                      /\ cpc' = "reload"
                      /\ UNCHANGED <<registry, failed>>
                 ELSE /\ res' = h.res
                      /\ registry' = h.reg
                      /\ calls' = Append(calls, "setup_php_fpm") \o h.calls
                      /\ cpc' = h.pc
                      /\ failed' = "setup_php_fpm"
       ELSE /\ cpc' = "reload"
            /\ UNCHANGED <<res, registry, calls, failed>>
    /\ UNCHANGED <<parent, cfgPhp, pre, clsErr, stype, cache, phpFlag, phpBound, data>>
    /\ UNCHANGED <<resolveVars, lockVars, nameVars, runVars, cloneVars>>

\* site_create.py 475-491
ReloadNginx ==
    /\ cpc = "reload"
    /\ \E ok \in BOOLEAN :
         LET h == late_failure_cleanup(res, data)
         IN IF ok
            THEN /\ calls' = Append(calls, "reload_service")
                 /\ cpc' = "perms"
                 /\ UNCHANGED <<res, registry, failed>>
            ELSE /\ res' = h.res
                 /\ registry' = h.reg
                 /\ calls' = Append(calls, "reload_service") \o h.calls
                 /\ cpc' = h.pc
                 /\ failed' = "reload_service"
    /\ UNCHANGED <<parent, cfgPhp, pre, clsErr, stype, cache, phpFlag, phpBound, data>>
    /\ UNCHANGED <<resolveVars, lockVars, nameVars, runVars, cloneVars>>

\* site_create.py 496-532
SetPermissions ==
    /\ cpc = "perms"
    /\ \E ok \in BOOLEAN :
         LET h == late_failure_cleanup(res, data)
         IN IF ok
            THEN /\ calls' = calls \o <<"setwebrootpermissions", "success">>
                 /\ cpc' = "done"
                 /\ UNCHANGED <<res, registry, failed>>
            ELSE /\ res' = h.res
                 /\ registry' = h.reg
                 /\ calls' = Append(calls, "setwebrootpermissions") \o h.calls
                 /\ cpc' = h.pc
                 /\ failed' = "setwebrootpermissions"
    /\ UNCHANGED <<parent, cfgPhp, pre, clsErr, stype, cache, phpFlag, phpBound, data>>
    /\ UNCHANGED <<resolveVars, lockVars, nameVars, runVars, cloneVars>>

CreateNext ==
    \/ DetermineSiteType
    \/ ValidateDomain
    \/ BuildData
    \/ PreRunChecks
    \/ SetupDomain
    \/ AddSite
    \/ SpecialReload
    \/ SetupDatabase
    \/ WriteWoConfig
    \/ SetupWordpress
    \/ SetupPhpFpm
    \/ ReloadNginx
    \/ SetPermissions

(***************************************************************************)
(* Calls of the resolver and of the classifier on bounded inputs           *)
(***************************************************************************)

NotCalled == [err |-> FALSE, stype |-> "not called", cache |-> "not called"]

ProxyValues == {None, <<>>, <<" ">>, <<"h">>, <<"h", ":", "8">>, <<" ", "h", ":", "8", " ">>,
                <<" ", "h", " ", ":", " ", "8", " ">>}

NameValues == {None, <<>>, <<" ">>, <<" ", "a", " ">>}

ResolveInit ==
    /\ in_opts \in ResolveFlagSets
    /\ in_proxy = None
    /\ in_alias = None
    /\ in_subsiteof = None
    /\ out_par = NotCalled
    /\ out_type = NotCalled

CallDetSitePar ==
    /\ out_par = NotCalled
    /\ out_par' = detSitePar(in_opts)
    /\ UNCHANGED <<in_opts, in_proxy, in_alias, in_subsiteof, out_type>>
    /\ UNCHANGED <<createVars, lockVars, nameVars, runVars, cloneVars>>

CallDetermineSiteType ==
    /\ out_type = NotCalled
    /\ \E proxy \in ProxyValues, alias \in NameValues, subsiteof \in NameValues :
         /\ in_proxy' = proxy
         /\ in_alias' = alias
         /\ in_subsiteof' = subsiteof
         /\ out_type' = determine_site_type(in_opts, proxy, alias, subsiteof)
    /\ UNCHANGED <<in_opts, out_par>>
    /\ UNCHANGED <<createVars, lockVars, nameVars, runVars, cloneVars>>

ResolveNext == CallDetSitePar \/ CallDetermineSiteType

(***************************************************************************)
(* `wo site autoupdate run`: the batch run and its lock files              *)
(***************************************************************************)
\* concurrent autoupdate processes
NRunners == 2

\* WordPress sites in the registry
NSites == 1

\* last tick of the clock
MaxTime == 3

\* max_age_sec, in ticks of the clock
max_age_sec == 1

Runners == 1..NRunners

Sites == 1..NSites

\* pid of a process that died before the runners started
DeadPid == NRunners + 1

global_lock == <<"global">>

\* /run/wo-autoupdate-<slug>.lock
site_lock(site) == <<"site", site>>

\* site_lock = None
NoLock == <<>>

LockPaths == {global_lock} \cup {site_lock(s) : s \in Sites}

Absent == [exists |-> FALSE, creator |-> 0, written |-> FALSE, ts |-> 0]

\* the file os.open(O_CREAT | O_EXCL) makes: empty until the payload is written
Created(p) == [exists |-> TRUE, creator |-> p, written |-> FALSE, ts |-> 0]

Written(p, t) == [exists |-> TRUE, creator |-> p, written |-> TRUE, ts |-> t]


TargetLists == {<<>>} \cup {<<s>> : s \in Sites}
                 \cup {[i \in 1..NSites |-> i]}

LockInit ==
    /\ lockFile \in [LockPaths -> {Absent, Written(DeadPid, 1)}]
    /\ alive = Runners
    /\ now = 1
    /\ upc = [p \in Runners |-> "idle"]
    /\ upath = [p \in Runners |-> global_lock]
    /\ uread = [p \in Runners |-> [pid |-> 0, ts |-> 0]]
    /\ utargets = [p \in Runners |-> <<>>]
    /\ usite = [p \in Runners |-> 0]
    /\ usitelock = [p \in Runners |-> NoLock]
    /\ uexit = [p \in Runners |-> FALSE]
    /\ uheld = [p \in Runners |-> [l \in LockPaths |-> 0]]
    /\ usummary = [p \in Runners |-> <<>>]
    /\ overheld = FALSE

\* run(): line 54, the call _acquire_lock(global_lock)
StartRun(p) ==
    /\ upc[p] = "idle"
    /\ upc' = [upc EXCEPT ![p] = "acq_open"]
    /\ upath' = [upath EXCEPT ![p] = global_lock]
    /\ UNCHANGED <<lockFile, alive, now, uread, utargets, usite, usitelock,
                   uexit, uheld, usummary, overheld>>
    /\ UNCHANGED <<createVars, resolveVars, nameVars, runVars, cloneVars>>

\* where run() goes on when _acquire_lock returns
AfterAcquire(p, got) ==
    IF upath[p] = global_lock
    THEN /\ upc' = [upc EXCEPT ![p] = IF got THEN "discover" ELSE "done"]
         /\ usummary' = usummary
    ELSE /\ upc' = [upc EXCEPT ![p] = IF got THEN "process" ELSE "site_finally"]
         /\ usummary' = IF got THEN usummary
                        ELSE [usummary EXCEPT ![p] = Append(@, <<usite[p], "skip">>)]

Acquired(p, got) ==
    uheld' = IF got THEN [uheld EXCEPT ![p][upath[p]] = now] ELSE uheld

\* _acquire_lock 632-634: atomic create, EEXIST when the path exists
AcqOpen(p) ==
    /\ upc[p] = "acq_open"
    /\ IF lockFile[upath[p]].exists
       THEN /\ upc' = [upc EXCEPT ![p] = "acq_read"]
            /\ lockFile' = lockFile
       ELSE /\ upc' = [upc EXCEPT ![p] = "acq_write"]
            /\ lockFile' = [lockFile EXCEPT ![upath[p]] = Created(p)]
    /\ UNCHANGED <<alive, now, upath, uread, utargets, usite, usitelock,
                   uexit, uheld, usummary, overheld>>
    /\ UNCHANGED <<createVars, resolveVars, nameVars, runVars, cloneVars>>

\* os.write on the descriptor: reaches the path only while the path still
\* names the file this process created
WritePayload(p) ==
    IF lockFile[upath[p]] = Created(p)
    THEN [lockFile EXCEPT ![upath[p]] = Written(p, now)]
    ELSE lockFile

\* _acquire_lock 635-640
AcqWrite(p) ==
    /\ upc[p] = "acq_write"
    /\ lockFile' = WritePayload(p)
    /\ AfterAcquire(p, TRUE)
    /\ Acquired(p, TRUE)
    /\ UNCHANGED <<alive, now, upath, uread, utargets, usite, usitelock,
                   uexit, overheld>>
    /\ UNCHANGED <<createVars, resolveVars, nameVars, runVars, cloneVars>>

\* what json.load and the two data.get calls yield: 0, 0.0 for a file that
\* is missing or still empty
ReadLock(f) ==
    IF f.exists /\ f.written THEN [pid |-> f.creator, ts |-> f.ts]
                             ELSE [pid |-> 0, ts |-> 0]

\* _acquire_lock 646-653
AcqRead(p) ==
    /\ upc[p] = "acq_read"
    /\ uread' = [uread EXCEPT ![p] = ReadLock(lockFile[upath[p]])]
    /\ upc' = [upc EXCEPT ![p] = "acq_check"]
    /\ UNCHANGED <<lockFile, alive, now, upath, utargets, usite, usitelock,
                   uexit, uheld, usummary, overheld>>
    /\ UNCHANGED <<createVars, resolveVars, nameVars, runVars, cloneVars>>

\* _acquire_lock 655-665
Stale(rd) ==
    \/ rd.ts # 0 /\ now - rd.ts > max_age_sec
    \/ rd.pid # 0 /\ rd.pid \notin alive

\* _acquire_lock 655-667, 685
AcqCheck(p) ==
    /\ upc[p] = "acq_check"
    /\ IF Stale(uread[p])
       THEN /\ upc' = [upc EXCEPT ![p] = "acq_remove"]
            /\ UNCHANGED <<usummary, uheld>>
       ELSE /\ AfterAcquire(p, FALSE)
            /\ Acquired(p, FALSE)
    /\ UNCHANGED <<lockFile, alive, now, upath, uread, utargets, usite,
                   usitelock, uexit, overheld>>
    /\ UNCHANGED <<createVars, resolveVars, nameVars, runVars, cloneVars>>

\* _acquire_lock 668-671: os.remove of whatever file is at the path now
AcqRemove(p) ==
    /\ upc[p] = "acq_remove"
    /\ lockFile' = [lockFile EXCEPT ![upath[p]] = Absent]
    /\ upc' = [upc EXCEPT ![p] = "acq_retry"]
    /\ UNCHANGED <<alive, now, upath, uread, utargets, usite, usitelock,
                   uexit, uheld, usummary, overheld>>
    /\ UNCHANGED <<createVars, resolveVars, nameVars, runVars, cloneVars>>

\* _acquire_lock 672-674, 682-683
AcqRetry(p) ==
    /\ upc[p] = "acq_retry"
    /\ IF lockFile[upath[p]].exists
       THEN /\ lockFile' = lockFile
            /\ AfterAcquire(p, FALSE)
            /\ Acquired(p, FALSE)
       ELSE /\ lockFile' = [lockFile EXCEPT ![upath[p]] = Created(p)]
            /\ upc' = [upc EXCEPT ![p] = "acq_rewrite"]
            /\ UNCHANGED <<usummary, uheld>>
    /\ UNCHANGED <<alive, now, upath, uread, utargets, usite, usitelock,
                   uexit, overheld>>
    /\ UNCHANGED <<createVars, resolveVars, nameVars, runVars, cloneVars>>

\* _acquire_lock 675-681
AcqRewrite(p) ==
    /\ upc[p] = "acq_rewrite"
    /\ lockFile' = WritePayload(p)
    /\ AfterAcquire(p, TRUE)
    /\ Acquired(p, TRUE)
    /\ UNCHANGED <<alive, now, upath, uread, utargets, usite, usitelock,
                   uexit, overheld>>
    /\ UNCHANGED <<createVars, resolveVars, nameVars, runVars, cloneVars>>

\* variant: the lock file is left where it is
_release_lock_keeps_file(files, path) == files

\* _release_lock: remove the path if it exists
_release_lock(files, path) == [files EXCEPT ![path] = Absent]

\* run() 58-64
Discover(p) ==
    /\ upc[p] = "discover"
    /\ \E targets \in TargetLists :
         /\ utargets' = [utargets EXCEPT ![p] = targets]
         /\ upc' = [upc EXCEPT ![p] = IF targets = <<>> THEN "global_release" ELSE "loop"]
    /\ UNCHANGED <<lockFile, alive, now, upath, uread, usite, usitelock,
                   uexit, uheld, usummary, overheld>>
    /\ UNCHANGED <<createVars, resolveVars, nameVars, runVars, cloneVars>>

\* run() 66-68, 100-103
NextTarget(p) ==
    /\ upc[p] = "loop"
    /\ IF utargets[p] = <<>>
       THEN /\ upc' = [upc EXCEPT ![p] = "global_release"]
            /\ usite' = [usite EXCEPT ![p] = 0]
            /\ UNCHANGED <<utargets, usitelock>>
       ELSE /\ usite' = [usite EXCEPT ![p] = Head(utargets[p])]
            /\ utargets' = [utargets EXCEPT ![p] = Tail(@)]
            /\ usitelock' = [usitelock EXCEPT ![p] = NoLock]
            /\ upc' = [upc EXCEPT ![p] = "getsiteinfo"]
    /\ UNCHANGED <<lockFile, alive, now, upath, uread, uexit, uheld,
                   usummary, overheld>>
    /\ UNCHANGED <<createVars, resolveVars, nameVars, runVars, cloneVars>>

\* run() 70-78
GetSiteInfo(p) ==
    /\ upc[p] = "getsiteinfo"
    /\ \E found \in BOOLEAN :
         IF found
         THEN /\ usitelock' = [usitelock EXCEPT ![p] = site_lock(usite[p])]
              /\ upath' = [upath EXCEPT ![p] = site_lock(usite[p])]
              /\ upc' = [upc EXCEPT ![p] = "acq_open"]
              /\ usummary' = usummary
         ELSE /\ usummary' = [usummary EXCEPT ![p] = Append(@, <<usite[p], "error">>)]
              /\ upc' = [upc EXCEPT ![p] = "site_finally"]
              /\ UNCHANGED <<usitelock, upath>>
    /\ UNCHANGED <<lockFile, alive, now, uread, utargets, usite, uexit,
                   uheld, overheld>>
    /\ UNCHANGED <<createVars, resolveVars, nameVars, runVars, cloneVars>>

\* how _process_site ends: it returns a result, raises an Exception, or a
\* Log.error inside it raises SystemExit
ProcessOutcomes == {"ok", "error", "exception", "exit"}

\* run() 83-95
ProcessSite(p) ==
    /\ upc[p] = "process"
    /\ \E outcome \in ProcessOutcomes :
         /\ usummary' = IF outcome = "exit" THEN usummary
                        ELSE [usummary EXCEPT ![p] =
                                Append(@, <<usite[p], IF outcome = "ok" THEN "ok" ELSE "error">>)]
         /\ uexit' = [uexit EXCEPT ![p] = (outcome = "exit")]
    /\ upc' = [upc EXCEPT ![p] = "site_finally"]
    /\ UNCHANGED <<lockFile, alive, now, upath, uread, utargets, usite,
                   usitelock, uheld, overheld>>
    /\ UNCHANGED <<createVars, resolveVars, nameVars, runVars, cloneVars>>

\* run() 96-98
SiteFinally(p) ==
    /\ upc[p] = "site_finally"
    /\ IF usitelock[p] # NoLock
       THEN /\ lockFile' = _release_lock(lockFile, usitelock[p])
            /\ uheld' = [uheld EXCEPT ![p][usitelock[p]] = 0]
       ELSE UNCHANGED <<lockFile, uheld>>
    /\ upc' = [upc EXCEPT ![p] = IF uexit[p] THEN "global_release" ELSE "loop"]
    /\ UNCHANGED <<alive, now, upath, uread, utargets, usite, usitelock,
                   uexit, usummary, overheld>>
    /\ UNCHANGED <<createVars, resolveVars, nameVars, runVars, cloneVars>>

\* run() 104-105
GlobalRelease(p) ==
    /\ upc[p] = "global_release"
    /\ lockFile' = _release_lock(lockFile, global_lock)
    /\ uheld' = [uheld EXCEPT ![p][global_lock] = 0]
    /\ upc' = [upc EXCEPT ![p] = "done"]
    /\ UNCHANGED <<alive, now, upath, uread, utargets, usite, usitelock,
                   uexit, usummary, overheld>>
    /\ UNCHANGED <<createVars, resolveVars, nameVars, runVars, cloneVars>>

\* the process is killed (SIGKILL, out of memory): no finally block runs
Crash(p) ==
    /\ upc[p] \notin {"idle", "done", "dead"}
    /\ alive' = alive \ {p}
    /\ upc' = [upc EXCEPT ![p] = "dead"]
    /\ UNCHANGED <<lockFile, now, upath, uread, utargets, usite, usitelock,
                   uexit, uheld, usummary, overheld>>
    /\ UNCHANGED <<createVars, resolveVars, nameVars, runVars, cloneVars>>

\* some live runner holds a lock it acquired more than max_age_sec before t
HeldTooLong(t) ==
    \E p \in alive, l \in LockPaths : uheld[p][l] # 0 /\ t - uheld[p][l] > max_age_sec

Tick ==
    /\ now < MaxTime
    /\ now' = now + 1
    /\ overheld' = (overheld \/ HeldTooLong(now + 1))
    /\ UNCHANGED <<lockFile, alive, upc, upath, uread, utargets, usite,
                   usitelock, uexit, uheld, usummary>>
    /\ UNCHANGED <<createVars, resolveVars, nameVars, runVars, cloneVars>>

LockNext ==
    \/ \E p \in Runners : StartRun(p)
    \/ \E p \in Runners : AcqOpen(p)
    \/ \E p \in Runners : AcqWrite(p)
    \/ \E p \in Runners : AcqRead(p)
    \/ \E p \in Runners : AcqCheck(p)
    \/ \E p \in Runners : AcqRemove(p)
    \/ \E p \in Runners : AcqRetry(p)
    \/ \E p \in Runners : AcqRewrite(p)
    \/ \E p \in Runners : Discover(p)
    \/ \E p \in Runners : NextTarget(p)
    \/ \E p \in Runners : GetSiteInfo(p)
    \/ \E p \in Runners : ProcessSite(p)
    \/ \E p \in Runners : SiteFinally(p)
    \/ \E p \in Runners : GlobalRelease(p)
    \/ \E p \in Runners : Crash(p)
    \/ Tick

(***************************************************************************)
(* Derived names: database name and user (setupdatabase), pool name and    *)
(* PHP-FPM user (site create, clone, restore), generate_random             *)
(***************************************************************************)
\* longest domain tried, apart from LongDomains
MaxDomainLen == 3

\* largest length passed to generate_random
MaxRandLen == 4

\* string.ascii_uppercase, string.ascii_lowercase, string.digits
ascii_uppercase == <<"A", "B", "C", "D", "E", "F", "G", "H", "I", "J", "K", "L", "M",
                     "N", "O", "P", "Q", "R", "S", "T", "U", "V", "W", "X", "Y", "Z">>

ascii_lowercase == <<"a", "b", "c", "d", "e", "f", "g", "h", "i", "j", "k", "l", "m",
                     "n", "o", "p", "q", "r", "s", "t", "u", "v", "w", "x", "y", "z">>

digits == <<"0", "1", "2", "3", "4", "5", "6", "7", "8", "9">>

\* str.lower(), one character
LowerChar(c) ==
    IF \E i \in 1..Len(ascii_uppercase) : ascii_uppercase[i] = c
    THEN ascii_lowercase[CHOOSE i \in 1..Len(ascii_uppercase) : ascii_uppercase[i] = c]
    ELSE c

\* str.lower()
Lower(s) == [i \in 1..Len(s) |-> LowerChar(s[i])]

\* str.replace(old, new) for one-character old and new
Replace(s, old, new) == [i \in 1..Len(s) |-> IF s[i] = old THEN new ELSE s[i]]

\* str.replace(old, '')
Remove(s, old) == SelectSeq(s, LAMBDA c : c # old)

\* the slice s[:n]
Slice(s, n) == SubSeq(s, 1, IF Len(s) < n THEN Len(s) ELSE n)

\* the default charset of generate_random
DefaultCharset == ascii_uppercase \o ascii_lowercase \o digits

\* random.sample(population of m, k): k different positions, in any order.
\* All draws are tried for a population of up to MaxRandLen positions; for a
\* larger one, runs of consecutive positions from the starts in SampleStarts.
SampleStarts == {0, 30}

Injective(f) == \A i \in DOMAIN f, j \in DOMAIN f : f[i] = f[j] => i = j

\* variant: positions are drawn with replacement
Samples_with_replacement(m, k) ==
    IF m <= MaxRandLen
    THEN [1..k -> 1..m]
    ELSE {[i \in 1..k |-> a + 1] : a \in SampleStarts}

Samples(m, k) ==
    IF m <= MaxRandLen
    THEN {f \in [1..k -> 1..m] : Injective(f)}
    ELSE {[i \in 1..k |-> ((a + i) % m) + 1] : a \in SampleStarts}

\* the charset generate_random works on
Population(charset) == IF charset = None THEN DefaultCharset ELSE charset

\* generate_random: actual_length = min(length, len(charset))
actual_length(length, charset) ==
    IF length < Len(Population(charset)) THEN length ELSE Len(Population(charset))

\* generate_random(length, charset), picks being the draw of random.sample
generate_random(length, charset, picks) ==
    [i \in 1..Len(picks) |-> Population(charset)[picks[i]]]

\* the draws open to generate_random(length, charset)
Draws(length, charset) ==
    Samples(Len(Population(charset)), actual_length(length, charset))

\* the results generate_random(length) can give with the default charset
RandomStrings(length) == {generate_random(length, None, f) : f \in Draws(length, None)}

_process_domain_for_database(domain_name) ==
    [dot_replaced       |-> Replace(Replace(domain_name, "-", "_"), ".", "_"),
     underscore_removed |-> Remove(Replace(Replace(domain_name, "-", "_"), ".", "_"), "_"),
     original           |-> domain_name]

\* f"{base_name}_{random_suffix}"
_generate_database_name(domain_processed, max_length, random_suffix) ==
    Slice(domain_processed, max_length) \o <<"_">> \o random_suffix

\* f"{base_name}{random_suffix}"
_generate_database_username(domain_processed, max_length, random_suffix) ==
    Slice(domain_processed, max_length) \o random_suffix

\* names _create_database_and_user settles on
_create_database_and_user(wo_db_name, wo_db_username, exists, suffix8, suffix4) ==
    IF exists
    THEN [name |-> _generate_database_name(wo_db_name, 32, suffix8),
          user |-> _generate_database_username(
                       _generate_database_name(wo_db_name, 32, suffix8), 12, suffix4)]
    ELSE [name |-> wo_db_name, user |-> wo_db_username]

\* setupdatabase 941-981: the names it asks _create_database_and_user for
setupdatabase_names(domain, typed, exists, s8a, s4a, s8b, s4b) ==
    LET domain_processed == _process_domain_for_database(domain)
        wo_db_name       == IF typed # <<>> THEN typed
                            ELSE _generate_database_name(domain_processed.dot_replaced, 32, s8a)
        wo_db_username   == _generate_database_username(
                                domain_processed.underscore_removed, 12, s4a)
    IN _create_database_and_user(wo_db_name, wo_db_username, exists, s8b, s4b)

\* variant: the domain is used as typed
pool_name_case_kept(domain) == Replace(domain, ".", "-")

\* domain.replace('.', '-').lower()
pool_name(domain) == Lower(Replace(domain, ".", "-"))

\* f"php-{pool_name}"
php_fpm_user(pool) == <<"p", "h", "p", "-">> \o pool

\* run() 76-77: f'/run/wo-autoupdate-{slug}.lock' with
\* slug = siteinfo.sitename.replace('.', '-').lower()
autoupdate_site_lock(sitename) ==
    <<"/run/wo-autoupdate-">> \o Lower(Replace(sitename, ".", "-")) \o <<".lock">>

\* characters of the domains tried
DomainChars == {"a", "B", ".", "-"}

\* domains longer than the 32 characters a database name keeps
LongDomains == {[i \in 1..32 |-> "a"],
                [i \in 1..34 |-> IF i = 32 THEN "." ELSE IF i = 33 THEN "-" ELSE "a"]}

Domains == UNION {[1..n -> DomainChars] : n \in 0..MaxDomainLen} \cup LongDomains

\* answers at the database-name prompt: none, or a name
TypedNames == {<<>>, <<"m", "y">>}

Charsets == {None, <<>>, <<"a">>, <<"a", "b">>, <<"a", "b", "a">>}

NoNames == [name |-> <<>>, user |-> <<>>]

NoPool == [pool_name |-> <<>>, has_user |-> FALSE, php_fpm_user |-> <<>>]

NamesInit ==
    /\ npc = "ready"
    /\ n_domain \in Domains
    /\ n_typed = <<>>
    /\ n_exists = FALSE
    /\ db_out = NoNames
    /\ p_cmd = "none"
    /\ p_php = FALSE
    /\ pool_out = NoPool
    /\ g_length = 0
    /\ g_charset = None
    /\ g_picks = <<>>
    /\ g_out = <<>>

\* setupdatabase with _create_database_and_user, as far as the names go
DeriveDbNames ==
    /\ npc = "ready"
    /\ \E typed \in TypedNames, exists \in BOOLEAN,
          s8a \in RandomStrings(8), s4a \in RandomStrings(4),
          s8b \in RandomStrings(8), s4b \in RandomStrings(4) :
         /\ n_typed' = typed
         /\ n_exists' = exists
         /\ db_out' = setupdatabase_names(n_domain, typed, exists, s8a, s4a, s8b, s4b)
    /\ npc' = "db"
    /\ UNCHANGED <<n_domain, p_cmd, p_php, pool_out, g_length, g_charset, g_picks, g_out>>
    /\ UNCHANGED <<createVars, resolveVars, lockVars, runVars, cloneVars>>

\* site_create.py 296-300, site_clone.py 134-136, site_restore.py 134-153
DerivePoolNames ==
    /\ npc = "ready"
    /\ \E cmd \in {"create", "clone", "restore"}, php \in BOOLEAN :
         /\ p_cmd' = cmd
         /\ p_php' = (php \/ cmd # "create")
         /\ pool_out' = [pool_name    |-> pool_name(n_domain),
                         has_user     |-> (php \/ cmd # "create"),
                         php_fpm_user |-> IF php \/ cmd # "create"
                                          THEN php_fpm_user(pool_name(n_domain))
                                          ELSE <<>>]
    /\ npc' = "pool"
    /\ UNCHANGED <<n_domain, n_typed, n_exists, db_out, g_length, g_charset, g_picks, g_out>>
    /\ UNCHANGED <<createVars, resolveVars, lockVars, runVars, cloneVars>>

\* a call generate_random(length, charset)
CallGenerateRandom ==
    /\ npc = "ready"
    /\ \E length \in 0..MaxRandLen, charset \in Charsets :
         \E picks \in Draws(length, charset) :
            /\ g_length' = length
            /\ g_charset' = charset
            /\ g_picks' = picks
            /\ g_out' = generate_random(length, charset, picks)
    /\ npc' = "random"
    /\ UNCHANGED <<n_domain, n_typed, n_exists, db_out, p_cmd, p_php, pool_out>>
    /\ UNCHANGED <<createVars, resolveVars, lockVars, runVars, cloneVars>>

NamesNext ==
    \/ DeriveDbNames
    \/ DerivePoolNames
    \/ CallGenerateRandom

(***************************************************************************)
(* One `wo site autoupdate run`, each call of _acquire_lock and of         *)
(* _process_site taken whole.  Other processes appear through the lock     *)
(* files they left or hold.                                                *)
(***************************************************************************)
\* sites the run can be given
NRunSites == 2

RunSites == 1..NRunSites

\* os.getpid() of the run
RunPid == 1

\* pid of another process that exists
LivePid == 2

RunLive == {RunPid, LivePid}

\* time.time() during the run
RunNow == max_age_sec + 2

\* a timestamp more than max_age_sec before the run, and one within it
OldTs == RunNow - max_age_sec - 1

FreshTs == RunNow

RunLockPaths == {global_lock} \cup {site_lock(s) : s \in RunSites}

\* what can be at a lock path when the run gets to it
LockFileStates ==
    {Absent, Created(LivePid),
     Written(DeadPid, OldTs), Written(DeadPid, FreshTs),
     Written(LivePid, OldTs), Written(LivePid, FreshTs)}

\* variant: the liveness test is inverted and the age is not looked at
StaleAt_live_owner(rd, t, live) == rd.pid # 0 /\ rd.pid \in live

\* _acquire_lock 655-665 at time t, live being the pids that exist
StaleAt(rd, t, live) ==
    \/ rd.ts # 0 /\ t - rd.ts > max_age_sec
    \/ rd.pid # 0 /\ rd.pid \notin live

\* _acquire_lock(path) called by pid at time t, no other process stepping in
_acquire_lock(files, path, pid, t, live) ==
    LET mine == [files EXCEPT ![path] = Written(pid, t)]
    IN IF ~files[path].exists
       THEN [got |-> TRUE, files |-> mine]
       ELSE IF StaleAt(ReadLock(files[path]), t, live)
            THEN [got |-> TRUE, files |-> mine]
            ELSE [got |-> FALSE, files |-> files]

NoCall == [path |-> NoLock, before |-> Absent, got |-> FALSE, after |-> Absent]

\* an entry of summary['sites']; wp tells whether siteinfo.site_type holds 'wp'
Result(site, wp, status, error, reason, backup, rolled_back) ==
    [site |-> site, wp |-> wp, status |-> status, error |-> error,
     reason |-> reason, backup |-> backup, rolled_back |-> rolled_back]

\* what the helpers of _process_site meet on the host
ProcessEnvs ==
    [dirs : {"ok", "exception", "exit"}, has_updates : BOOLEAN, backup : BOOLEAN,
     updates : BOOLEAN, visual : BOOLEAN, restore : {"ok", "nonzero", "oserror"}]

Returned(result, ops) == [end |-> "return", result |-> result, ops |-> ops]

\* Log.error (wo/core/logging.py) closes the application: the SystemExit it
\* raises passes `except Exception` and runs the finally blocks
ExitRaised == "exit"

Raised(how, site, ops) ==
    [end |-> how, result |-> Result(site, TRUE, "ok", "none", "none", FALSE, FALSE),
     ops |-> ops]

\* _process_site 580-587 and 592-599: _restore_backup, then the error result.
\* cmd_exec with errormsg calls Log.error on a non-zero exit status and
\* raises CommandExecutionError when the command cannot be run.
RestoreAndReport(site, e, error, ops) ==
    CASE e.restore = "ok" ->
            Returned(Result(site, TRUE, "error", error, "none", TRUE, TRUE),
                     Append(ops, <<site, "restore">>))
      [] e.restore = "nonzero" ->
            Raised(ExitRaised, site, Append(ops, <<site, "restore_failed">>))
      [] OTHER ->
            Raised("exception", site, Append(ops, <<site, "restore_failed">>))

\* _process_site 548-601, past the dry-run return; _backup_site calls
\* Log.error when the backup fails
ProcessForReal(site, skip_visual, e) ==
    IF ~e.backup THEN Raised(ExitRaised, site, <<<<site, "backup_failed">>>>)
    ELSE IF ~e.has_updates
    THEN Returned(Result(site, TRUE, "backup-only", "none", "none", TRUE, FALSE),
                  <<<<site, "backup">>>>)
    ELSE IF ~e.updates
    THEN RestoreAndReport(site, e, "update failed",
                          <<<<site, "backup">>, <<site, "update">>>>)
    ELSE IF ~skip_visual /\ ~e.visual
    THEN RestoreAndReport(site, e, "visual regression failed",
                          <<<<site, "backup">>, <<site, "update">>>>)
    ELSE Returned(Result(site, TRUE, "ok", "none", "none", TRUE, FALSE),
                  <<<<site, "backup">>, <<site, "update">>>>)

\* variant: the dry-run return is missing
_process_site_ignoring_dry_run(site, wp, dry_run, skip_visual, e) ==
    IF e.dirs # "ok" THEN Raised(e.dirs, site, <<>>)
    ELSE IF ~wp
    THEN Returned(Result(site, FALSE, "skip", "none", "non-wordpress", FALSE, FALSE), <<>>)
    ELSE ProcessForReal(site, skip_visual, e)

\* _process_site 515-546
_process_site(site, wp, dry_run, skip_visual, e) ==
    IF e.dirs # "ok" THEN Raised(e.dirs, site, <<>>)
    ELSE IF ~wp
    THEN Returned(Result(site, FALSE, "skip", "none", "non-wordpress", FALSE, FALSE), <<>>)
    ELSE IF dry_run
    THEN Returned(Result(site, TRUE, IF e.has_updates THEN "planned" ELSE "noop",
                         "none", "none", FALSE, FALSE), <<>>)
    ELSE ProcessForReal(site, skip_visual, e)

\* _discover_targets: the sites of --all, or the one site named
RunTargetLists ==
    {s \in UNION {[1..n -> RunSites] : n \in 0..NRunSites} :
        \A i \in 1..Len(s), j \in 1..Len(s) : i < j => s[i] < s[j]}

RunInit ==
    /\ rpc = "start"
    /\ rfiles \in {[p \in RunLockPaths |-> IF p = global_lock THEN f ELSE Absent] :
                     f \in LockFileStates}
    /\ rdry \in BOOLEAN
    /\ rnovisual \in BOOLEAN
    /\ rtargets = <<>>
    /\ rsite = 0
    /\ rsitelock = NoLock
    /\ rexit = FALSE
    /\ rheld = {}
    /\ racq = NoCall
    /\ rops = <<>>
    /\ rsummary = <<>>

\* run() 51-56
RunStart ==
    /\ rpc = "start"
    /\ LET a == _acquire_lock(rfiles, global_lock, RunPid, RunNow, RunLive)
       IN /\ rfiles' = a.files
          /\ racq' = [path |-> global_lock, before |-> rfiles[global_lock],
                      got |-> a.got, after |-> a.files[global_lock]]
          /\ rheld' = IF a.got THEN {global_lock} ELSE {}
          /\ rpc' = IF a.got THEN "discover" ELSE "done"
    /\ UNCHANGED <<rdry, rnovisual, rtargets, rsite, rsitelock, rexit, rops, rsummary>>
    /\ UNCHANGED <<createVars, resolveVars, lockVars, nameVars, cloneVars>>

\* run() 57-64; getAllsites may raise or end the process
RunDiscover ==
    /\ rpc = "discover"
    /\ \/ \E targets \in RunTargetLists :
            /\ rtargets' = targets
            /\ rpc' = IF targets = <<>> THEN "global_release" ELSE "loop"
            /\ rexit' = rexit
       \/ /\ rtargets' = rtargets
          /\ rpc' = "global_release"
          /\ rexit' = TRUE
    /\ UNCHANGED <<rfiles, rdry, rnovisual, rsite, rsitelock, rheld, racq, rops, rsummary>>
    /\ UNCHANGED <<createVars, resolveVars, lockVars, nameVars, cloneVars>>

\* run() 66-68 and, after the last target, 100-103
RunNextTarget ==
    /\ rpc = "loop"
    /\ IF rtargets = <<>>
       THEN /\ rpc' = "global_release"
            /\ rsite' = 0
            /\ UNCHANGED <<rtargets, rsitelock>>
       ELSE /\ rsite' = Head(rtargets)
            /\ rtargets' = Tail(rtargets)
            /\ rsitelock' = NoLock
            /\ rpc' = "getsiteinfo"
    /\ UNCHANGED <<rfiles, rdry, rnovisual, rexit, rheld, racq, rops, rsummary>>
    /\ UNCHANGED <<createVars, resolveVars, lockVars, nameVars, cloneVars>>

\* run() 70-81: getSiteInfo, then _acquire_lock(site_lock); f is the file
\* other processes have put at the path by then
RunGetSiteInfo ==
    /\ rpc = "getsiteinfo"
    /\ \E info \in {"found", "missing", "exception"}, f \in LockFileStates :
         LET path   == site_lock(rsite)
             files0 == [rfiles EXCEPT ![path] = f]
             a      == _acquire_lock(files0, path, RunPid, RunNow, RunLive)
         IN CASE info = "found" ->
                   /\ rsitelock' = path
                   /\ rfiles' = a.files
                   /\ racq' = [path |-> path, before |-> f, got |-> a.got,
                               after |-> a.files[path]]
                   /\ rheld' = IF a.got THEN rheld \cup {path} ELSE rheld
                   /\ rsummary' = IF a.got THEN rsummary
                                  ELSE Append(rsummary,
                                         Result(rsite, TRUE, "skip", "none", "locked",
                                                FALSE, FALSE))
                   /\ rpc' = IF a.got THEN "process" ELSE "site_finally"
             [] info = "missing" ->
                   /\ rsummary' = Append(rsummary,
                                    Result(rsite, FALSE, "error", "site not found", "none",
                                           FALSE, FALSE))
                   /\ rpc' = "site_finally"
                   /\ UNCHANGED <<rsitelock, rfiles, racq, rheld>>
             [] OTHER ->
                   /\ rsummary' = Append(rsummary,
                                    Result(rsite, FALSE, "error", "exception", "none",
                                           FALSE, FALSE))
                   /\ rpc' = "site_finally"
                   /\ UNCHANGED <<rsitelock, rfiles, racq, rheld>>
    /\ UNCHANGED <<rdry, rnovisual, rtargets, rsite, rexit, rops>>
    /\ UNCHANGED <<createVars, resolveVars, lockVars, nameVars, cloneVars>>

\* run() 83-95
RunProcessSite ==
    /\ rpc = "process"
    /\ \E wp \in BOOLEAN, e \in ProcessEnvs :
         LET r == _process_site(rsite, wp, rdry, rnovisual, e)
         IN /\ rops' = rops \o r.ops
            /\ rsummary' = CASE r.end = "return" -> Append(rsummary, r.result)
                             [] r.end = "exception" ->
                                  Append(rsummary,
                                         Result(rsite, wp, "error", "exception", "none",
                                                FALSE, FALSE))
                             [] OTHER -> rsummary
            /\ rexit' = (r.end = ExitRaised)
    /\ rpc' = "site_finally"
    /\ UNCHANGED <<rfiles, rdry, rnovisual, rtargets, rsite, rsitelock, rheld, racq>>
    /\ UNCHANGED <<createVars, resolveVars, lockVars, nameVars, cloneVars>>

\* variant: a refused site lock ends the loop (return in place of continue)
RunSiteFinally_returns_when_locked ==
    /\ rpc = "site_finally"
    /\ IF rsitelock # NoLock
       THEN /\ rfiles' = _release_lock(rfiles, rsitelock)
            /\ rheld' = rheld \ {rsitelock}
       ELSE UNCHANGED <<rfiles, rheld>>
    /\ rpc' = IF rexit \/ (rsitelock # NoLock /\ rsitelock \notin rheld)
              THEN "global_release" ELSE "loop"
    /\ UNCHANGED <<rdry, rnovisual, rtargets, rsite, rsitelock, rexit, racq, rops, rsummary>>
    /\ UNCHANGED <<createVars, resolveVars, lockVars, nameVars, cloneVars>>

\* run() 96-98
RunSiteFinally ==
    /\ rpc = "site_finally"
    /\ IF rsitelock # NoLock
       THEN /\ rfiles' = _release_lock(rfiles, rsitelock)
            /\ rheld' = rheld \ {rsitelock}
       ELSE UNCHANGED <<rfiles, rheld>>
    /\ rpc' = IF rexit THEN "global_release" ELSE "loop"
    /\ UNCHANGED <<rdry, rnovisual, rtargets, rsite, rsitelock, rexit, racq, rops, rsummary>>
    /\ UNCHANGED <<createVars, resolveVars, lockVars, nameVars, cloneVars>>

\* run() 104-105
RunGlobalRelease ==
    /\ rpc = "global_release"
    /\ rfiles' = _release_lock(rfiles, global_lock)
    /\ rheld' = rheld \ {global_lock}
    /\ rpc' = "done"
    /\ UNCHANGED <<rdry, rnovisual, rtargets, rsite, rsitelock, rexit, racq, rops, rsummary>>
    /\ UNCHANGED <<createVars, resolveVars, lockVars, nameVars, cloneVars>>

RunNext ==
    \/ RunStart
    \/ RunDiscover
    \/ RunNextTarget
    \/ RunGetSiteInfo
    \/ RunProcessSite
    \/ RunSiteFinally
    \/ RunGlobalRelease

(***************************************************************************)
(* `wo site clone <src> <dest>` (WOSiteCloneController.default).  kres are *)
(* the destination's resources, kreg its sitedb entry.  default() has no   *)
(* try block: a step that raises ends the command where it stands.         *)
(***************************************************************************)
\* src_info.site_type, "none" when the source is not registered
SourceTypes == {"none", "html", "php", "wp", "wpsubdir"}

\* steps of default() after the vhost is rendered
CloneLateSteps == {"setupdatabase", "setup_php_fpm", "copy_acl", "dump_import",
                   "setupwordpress", "copyfiles", "finish"}

CloneInit ==
    /\ kpc = "start"
    /\ kres \in [vhost : BOOLEAN, webroot : BOOLEAN, db : {FALSE},
                 dbuser : {FALSE}, pool : {FALSE}]
    /\ kreg \in BOOLEAN
    /\ ksrc \in SourceTypes
    /\ kfailed = "none"

\* site_clone.py 107-123: both sites are looked up before anything is made
CloneValidate ==
    /\ kpc = "start"
    /\ IF ksrc = "none" \/ kreg
       THEN kpc' = LogError /\ kfailed' = "validate"
       ELSE kpc' = "prerun" /\ kfailed' = kfailed
    /\ UNCHANGED <<kres, kreg, ksrc>>
    /\ UNCHANGED <<createVars, resolveVars, lockVars, nameVars, runVars>>

\* site_clone.py 156: pre_run_checks raises SiteError when nginx -t fails
ClonePreRun ==
    /\ kpc = "prerun"
    /\ \E ok \in BOOLEAN :
         IF ok THEN kpc' = "setupdomain" /\ kfailed' = kfailed
               ELSE kpc' = Unhandled /\ kfailed' = "pre_run_checks"
    /\ UNCHANGED <<kres, kreg, ksrc>>
    /\ UNCHANGED <<createVars, resolveVars, lockVars, nameVars, runVars>>

\* site_clone.py 157
CloneSetupDomain ==
    /\ kpc = "setupdomain"
    /\ \E outcome \in DomainOutcomes :
         /\ kres' = setupdomain(kres, outcome)
         /\ IF outcome = "ok"
            THEN kpc' = "addsite" /\ kfailed' = kfailed
            ELSE kpc' = Unhandled /\ kfailed' = "setupdomain"
    /\ UNCHANGED <<kreg, ksrc>>
    /\ UNCHANGED <<createVars, resolveVars, lockVars, nameVars, runVars>>

\* site_clone.py 158-160: hashbucket, addNewSite
CloneAddSite ==
    /\ kpc = "addsite"
    /\ kreg' = TRUE
    /\ kpc' = "setupdatabase"
    /\ UNCHANGED <<kres, ksrc, kfailed>>
    /\ UNCHANGED <<createVars, resolveVars, lockVars, nameVars, runVars>>

\* site_clone.py 161-167: setupdatabase, updateSiteInfo
CloneSetupDatabase ==
    /\ kpc = "setupdatabase"
    /\ \E outcome \in DbOutcomes :
         /\ kres' = setupdatabase(kres, NoData, outcome).res
         /\ IF outcome = "ok"
            THEN kpc' = "setup_php_fpm" /\ kfailed' = kfailed
            ELSE kpc' = Unhandled /\ kfailed' = "setupdatabase"
    /\ UNCHANGED <<kreg, ksrc>>
    /\ UNCHANGED <<createVars, resolveVars, lockVars, nameVars, runVars>>

\* site_clone.py 168
CloneSetupPhpFpm ==
    /\ kpc = "setup_php_fpm"
    /\ \E outcome \in PoolOutcomes :
         /\ kres' = setup_php_fpm(kres, outcome)
         /\ IF outcome = "ok"
            THEN kpc' = "copy_acl" /\ kfailed' = kfailed
            ELSE kpc' = Unhandled /\ kfailed' = "setup_php_fpm"
    /\ UNCHANGED <<kreg, ksrc>>
    /\ UNCHANGED <<createVars, resolveVars, lockVars, nameVars, runVars>>

\* a later step of default(): it returns, or it raises
CloneLateStep(step, next) ==
    /\ kpc = step
    /\ \E ok \in BOOLEAN :
         IF ok THEN kpc' = next /\ kfailed' = kfailed
               ELSE kpc' = Unhandled /\ kfailed' = step
    /\ UNCHANGED <<kres, kreg, ksrc>>
    /\ UNCHANGED <<createVars, resolveVars, lockVars, nameVars, runVars>>

\* site_clone.py 170-172
CloneCopyAcl == CloneLateStep("copy_acl", "dump_import")

\* site_clone.py 174-194: a dump or import that exits non-zero is not looked
\* at (cmd_exec without errormsg returns False); one that cannot run raises
CloneDumpImport == CloneLateStep("dump_import", "setupwordpress")

\* site_clone.py 199-200: setupwordpress(vhostonly=True) writes wp-config.php
CloneWpConfig == CloneLateStep("setupwordpress", "copyfiles")

\* site_clone.py 202-209: replace htdocs by a copy, search-replace the domain
CloneCopyFiles == CloneLateStep("copyfiles", "finish")

\* site_clone.py 211-219: permissions, nginx reload, SSL of the source
CloneFinish == CloneLateStep("finish", "done")

CloneNext ==
    \/ CloneValidate
    \/ ClonePreRun
    \/ CloneSetupDomain
    \/ CloneAddSite
    \/ CloneSetupDatabase
    \/ CloneSetupPhpFpm
    \/ CloneCopyAcl
    \/ CloneDumpImport
    \/ CloneWpConfig
    \/ CloneCopyFiles
    \/ CloneFinish

(***************************************************************************)
(* Specifications.  Each one runs one part and holds the others still.     *)
(***************************************************************************)
CreateIdle ==
    /\ cpc = "idle"
    /\ res = [vhost |-> FALSE, webroot |-> FALSE, db |-> FALSE,
              dbuser |-> FALSE, pool |-> FALSE]
    /\ registry = NoEntry
    /\ parent = NoParent
    /\ cfgPhp = FALSE
    /\ pre = [res |-> res, registry |-> registry]
    /\ clsErr = FALSE
    /\ stype = None
    /\ cache = None
    /\ phpFlag = FALSE
    /\ phpBound = FALSE
    /\ data = NoData
    /\ calls = <<>>
    /\ failed = "none"

ResolveIdle ==
    /\ in_opts = {}
    /\ in_proxy = None
    /\ in_alias = None
    /\ in_subsiteof = None
    /\ out_par = NotCalled
    /\ out_type = NotCalled

LockIdle ==
    /\ lockFile = [l \in LockPaths |-> Absent]
    /\ alive = {}
    /\ now = 1
    /\ upc = [p \in Runners |-> "done"]
    /\ upath = [p \in Runners |-> global_lock]
    /\ uread = [p \in Runners |-> [pid |-> 0, ts |-> 0]]
    /\ utargets = [p \in Runners |-> <<>>]
    /\ usite = [p \in Runners |-> 0]
    /\ usitelock = [p \in Runners |-> NoLock]
    /\ uexit = [p \in Runners |-> FALSE]
    /\ uheld = [p \in Runners |-> [l \in LockPaths |-> 0]]
    /\ usummary = [p \in Runners |-> <<>>]
    /\ overheld = FALSE

NamesIdle ==
    /\ npc = "idle"
    /\ n_domain = <<>>
    /\ n_typed = <<>>
    /\ n_exists = FALSE
    /\ db_out = NoNames
    /\ p_cmd = "none"
    /\ p_php = FALSE
    /\ pool_out = NoPool
    /\ g_length = 0
    /\ g_charset = None
    /\ g_picks = <<>>
    /\ g_out = <<>>

RunIdle ==
    /\ rpc = "idle"
    /\ rfiles = [p \in RunLockPaths |-> Absent]
    /\ rdry = FALSE
    /\ rnovisual = FALSE
    /\ rtargets = <<>>
    /\ rsite = 0
    /\ rsitelock = NoLock
    /\ rexit = FALSE
    /\ rheld = {}
    /\ racq = NoCall
    /\ rops = <<>>
    /\ rsummary = <<>>

CloneIdle ==
    /\ kpc = "idle"
    /\ kres = [vhost |-> FALSE, webroot |-> FALSE, db |-> FALSE, dbuser |-> FALSE,
               pool |-> FALSE]
    /\ kreg = FALSE
    /\ ksrc = "none"
    /\ kfailed = "none"

\* site create
Init == CreateInit /\ ResolveIdle /\ LockIdle /\ NamesIdle /\ RunIdle /\ CloneIdle

Next == CreateNext

Spec == Init /\ [][Next]_vars

\* the resolver and the classifier
ResolveStart == ResolveInit /\ CreateIdle /\ LockIdle /\ NamesIdle /\ RunIdle /\ CloneIdle

SpecResolve == ResolveStart /\ [][ResolveNext]_vars

\* concurrent autoupdate runs
LockStart == LockInit /\ CreateIdle /\ ResolveIdle /\ NamesIdle /\ RunIdle /\ CloneIdle

SpecLock == LockStart /\ [][LockNext]_vars

\* the steps a running process takes by itself: every step of its run but
\* being killed
RunnerStep(p) ==
    \/ StartRun(p) \/ AcqOpen(p) \/ AcqWrite(p) \/ AcqRead(p) \/ AcqCheck(p)
    \/ AcqRemove(p) \/ AcqRetry(p) \/ AcqRewrite(p) \/ Discover(p)
    \/ NextTarget(p) \/ GetSiteInfo(p) \/ ProcessSite(p) \/ SiteFinally(p)
    \/ GlobalRelease(p)

\* concurrent runs in which a process that is not killed runs on, and a
\* scheduled run starts
SpecLockFair == SpecLock /\ \A p \in Runners : WF_vars(RunnerStep(p))

\* derived names and random strings
NamesStart == NamesInit /\ CreateIdle /\ ResolveIdle /\ LockIdle /\ RunIdle /\ CloneIdle

SpecNames == NamesStart /\ [][NamesNext]_vars

\* one autoupdate run
RunAlone == RunInit /\ CreateIdle /\ ResolveIdle /\ LockIdle /\ NamesIdle /\ CloneIdle

SpecRun == RunAlone /\ [][RunNext]_vars

\* site clone
CloneStart == CloneInit /\ CreateIdle /\ ResolveIdle /\ LockIdle /\ NamesIdle /\ RunIdle

SpecClone == CloneStart /\ [][CloneNext]_vars

(***************************************************************************)
(* Properties of site create (checked under Spec)                          *)
(***************************************************************************)
\* the steps that act on the system; a run can fail in each of them
ProvisioningFailures == {"setupdomain", "reload_service", "setupdatabase", "wo-config",
                         "setupwordpress_db", "setupwordpress", "setup_php_fpm",
                         "setwebrootpermissions"}

\* the forward call a failure is raised from
FailingCall(f) == IF f = "setupwordpress_db" THEN "setupdatabase" ELSE f

IsForward(c) == c \in Forward

ForwardCalls == SelectSeq(calls, IsForward)

Invoked(c) == \E i \in 1..Len(calls) : calls[i] = c

NothingRemains ==
    /\ ~res.vhost
    /\ ~res.webroot
    /\ ~res.db
    /\ ~res.dbuser
    /\ ~registry.present

\* C1: when a provisioning step of site create fails, the run ends with no
\* vhost, no webroot, no database and no registry entry left behind.
C1_FailedCreateLeavesNothing ==
    (Terminated /\ failed \in ProvisioningFailures)
        => (~res.vhost /\ ~res.webroot /\ ~res.db /\ ~registry.present)

\* C3: when the database step inside the WordPress install of a new WordPress
\* site fails, the vhost, the webroot and the registry entry are removed.
C3_WordpressDbFailureCompensated ==
    (Terminated /\ failed = "setupwordpress_db")
        => (~res.vhost /\ ~res.webroot /\ ~registry.present)

\* C4: when the PHP-FPM pool step of a mysql site fails, the run ends with the
\* vhost, the webroot, the database and its user, and the registry entry gone.
C4_MysqlPoolFailureRollsBack ==
    (Terminated /\ failed = "setup_php_fpm" /\ stype = "mysql")
        => NothingRemains

C4_Witness ==
    /\ cpc = "exited"
    /\ failed = "setup_php_fpm"
    /\ stype = "mysql"
    /\ Invoked("setupdatabase")
    /\ Invoked("deleteDB")
    /\ res.pool

C6_NoForwardStepAfterFailure ==
    failed \in ProvisioningFailures
        => /\ cpc \in {"exited", "crashed"}
           /\ ForwardCalls # <<>>
           /\ ForwardCalls[Len(ForwardCalls)] = FailingCall(failed)

C6_Witness ==
    /\ failed = "setupdomain"
    /\ cpc = "exited"
    /\ Invoked("setupdomain")
    /\ Invoked("deleteSiteInfo")

\* C7: for a proxy, alias or subsite site no database step, no WordPress step
\* and no PHP-FPM pool step runs.
C7_SpecialSitesSkipDbWpPool ==
    data.kind \in SpecialKinds
        => /\ ~Invoked("setupdatabase")
           /\ ~Invoked("setupwordpress")
           /\ ~Invoked("setup_php_fpm")
           /\ ~res.db
           /\ ~res.pool

\* C8: a subsite whose parent is missing, disabled or not a WordPress
\* multisite is refused before anything is created: the run ends with an
\* error and has changed nothing.
C8_IneligibleParentCreatesNothing ==
    (stype = "subsite" /\ ~(parent.present /\ parent.is_enabled
                            /\ parent.site_type \in {"wpsubdomain", "wpsubdir"}))
        => /\ cpc \in {"validate", "build", "exited"}
           /\ res = pre.res
           /\ registry = pre.registry
           /\ calls = <<>>

C8_Witness ==
    /\ cpc = "exited"
    /\ failed = "parent_check"
    /\ parent.present
    /\ ~parent.is_enabled
    /\ parent.site_type = "wpsubdir"

(***************************************************************************)
(* Properties of the resolver and the classifier (checked under            *)
(* SpecResolve)                                                            *)
(***************************************************************************)
\* the cache type detSitePar selects for the flags of the call
SelectedCache ==
    IF in_opts \cap CACHE_OPTIONS = {} THEN "basic"
    ELSE CHOOSE c \in in_opts \cap CACHE_OPTIONS : TRUE

ParReturned == out_par # NotCalled /\ ~out_par.err

TypeReturned == out_type # NotCalled /\ ~out_type.err

\* C9: with exactly the type flags php and html active (and at most one cache
\* flag), the resolver returns site type php with the selected cache type.
C9_PhpHtmlResolvesToPhp ==
    (/\ out_par # NotCalled
     /\ in_opts \cap TYPE_OPTIONS = {"php", "html"}
     /\ Cardinality(in_opts \cap CACHE_OPTIONS) <= 1)
        => out_par = Resolved("php", SelectedCache)

\* C10 as stated: every pair the resolver or the classifier returns has cache
\* type basic unless its site type is wp, wpsubdir or wpsubdomain.
C10_BasicUnlessWordpress ==
    /\ ParReturned => (out_par.stype \in WpFamily \/ out_par.cache = "basic")
    /\ TypeReturned => (out_type.stype \in WpFamily \/ out_type.cache = "basic")

\* C10 amended: every pair the resolver or the classifier returns has cache
\* type basic unless a cache flag is active, and then the cache type is that
\* flag whatever the site type; the exceptions are the resolver's (None, None)
\* when no type or cache flag is active, and the classifier's proxy, alias and
\* subsite results, whose cache type is the empty string.
C10_CacheFollowsCacheFlag ==
    /\ ParReturned =>
         IF in_opts \cap (TYPE_OPTIONS \cup CACHE_OPTIONS) = {}
         THEN out_par = Resolved(None, None)
         ELSE out_par.stype # None /\ out_par.cache = SelectedCache
    /\ TypeReturned =>
         IF out_type.stype \in SpecialKinds
         THEN out_type.cache = ""
         ELSE out_type.cache = SelectedCache

C10_Witness ==
    /\ out_par = Resolved("mysql", "wpfc")
    /\ out_type.stype = "mysql"
    /\ out_type.cache = "wpfc"

(***************************************************************************)
(* Properties of concurrent autoupdate runs (checked under SpecLock)       *)
(***************************************************************************)
\* _acquire_lock(l) returned True to p and p has not released l since
Holds(p, l) == uheld[p][l] # 0

\* C2: provided no lock is held for longer than max_age, no two live processes
\* hold the same lock path at the same time; so no two runs are past the
\* global lock together and no two processes work on the same site together.
C2_NoTwoHoldersOfALock ==
    ~overheld =>
        \A p \in alive, q \in alive :
            p # q => /\ \A l \in LockPaths : ~(Holds(p, l) /\ Holds(q, l))
                     /\ ~(upc[p] = "process" /\ upc[q] = "process" /\ usite[p] = usite[q])

\* how many of {resolved site type, proxy, alias, subsiteof} the call carries
PresentCount ==
    (IF detSitePar(in_opts).err \/ detSitePar(in_opts).stype # None THEN 1 ELSE 0)
      + (IF ProxyGiven(in_proxy) THEN 1 ELSE 0)
      + (IF StrGiven(in_alias) THEN 1 ELSE 0)
      + (IF StrGiven(in_subsiteof) THEN 1 ELSE 0)

\* C11: whenever two or more of a resolved site type, a proxy option, an alias
\* option and a subsiteof option are present, the classifier raises an error.
C11_TwoKindsAlwaysConflict ==
    (out_type # NotCalled /\ PresentCount >= 2) => out_type.err

\* the type flags of the call are a subset of some table entry
Covered(typelist) == \E i \in 1..Len(combinations) : typelist \subseteq combinations[i][1]

\* C12: the resolver raises an error, and returns no pair, whenever two or
\* more cache flags are active and whenever two or more type flags are active
\* that no table entry covers (such as {html, wp} or two PHP versions).
C12_IllegalCombinationsRaise ==
    out_par # NotCalled =>
        /\ Cardinality(in_opts \cap CACHE_OPTIONS) >= 2 => out_par = ResolveError
        /\ (/\ Cardinality(in_opts \cap TYPE_OPTIONS) >= 2
            /\ ~Covered(in_opts \cap TYPE_OPTIONS)) => out_par = ResolveError
        /\ {"html", "wp"} \subseteq in_opts => out_par = ResolveError
        /\ Cardinality(in_opts \cap PhpVersionSet) >= 2 => out_par = ResolveError

C12_Witness ==
    /\ in_opts = {"html", "wp", "wpfc"}
    /\ out_par = ResolveError

\* the option was passed and nothing is left of its value after strip()
Blank(v) == v # None /\ Strip(v) = <<>>

\* C13: a proxy, alias or subsiteof option whose value is empty after trimming
\* makes the classifier raise an error; it returns no descriptor.
C13_BlankSpecialOptionRaises ==
    (out_type # NotCalled /\ (Blank(in_proxy) \/ Blank(in_alias) \/ Blank(in_subsiteof)))
        => out_type.err

Colons(t) == {i \in 1..Len(t) : t[i] = ":"}

\* host or host:port, with no blank inside
HostPortForm(t) ==
    /\ t # <<>>
    /\ Cardinality(Colons(t)) <= 1
    /\ \A i \in 1..Len(t) : ~IsSpace(t[i])

FirstColon(t) == CHOOSE i \in Colons(t) : \A j \in Colons(t) : i <= j

BeforeColon(t) == IF Colons(t) = {} THEN t ELSE SubSeq(t, 1, FirstColon(t) - 1)

AfterColon(t) == SubSeq(t, FirstColon(t) + 1, Len(t))

\* C14: for a proxy option host[:port] and no type or cache flag, the
\* classifier returns type proxy, host the trimmed text before the first ':'
\* and port the text after it, or "80" when the value has no ':'.
C14_ProxyHostAndPort ==
    (/\ out_type # NotCalled
     /\ in_opts \cap (TYPE_OPTIONS \cup CACHE_OPTIONS) = {}
     /\ in_proxy # None
     /\ HostPortForm(Strip(in_proxy)))
        => /\ ~out_type.err
           /\ out_type.stype = "proxy"
           /\ out_type.extra[1] = BeforeColon(Strip(in_proxy))
           /\ out_type.extra[2] = IF Colons(Strip(in_proxy)) = {} THEN <<"8", "0">>
                                  ELSE AfterColon(Strip(in_proxy))

C14_Witness ==
    /\ in_opts = {}
    /\ out_type.stype = "proxy"
    /\ out_type.extra = << <<"h">>, <<"8">> >>
    /\ in_proxy = <<" ", "h", ":", "8", " ">>

\* a proxy list, or a non-empty alias or subsiteof string, was passed
SpecialPresent ==
    \/ in_proxy # None
    \/ in_alias # None /\ Len(in_alias) > 0
    \/ in_subsiteof # None /\ Len(in_subsiteof) > 0

C16_NoneOrOneTypeFlag ==
    (out_par # NotCalled /\ Cardinality(in_opts \cap CACHE_OPTIONS) <= 1)
        => /\ in_opts \cap TYPE_OPTIONS = {} =>
                out_par = IF in_opts \cap CACHE_OPTIONS = {}
                          THEN [err |-> FALSE, stype |-> None, cache |-> None]
                          ELSE [err |-> FALSE, stype |-> "wp", cache |-> SelectedCache]
           /\ \A t \in TYPE_OPTIONS :
                in_opts \cap TYPE_OPTIONS = {t} =>
                    out_par = IF t \in PhpVersionSet /\ in_opts \cap CACHE_OPTIONS # {}
                              THEN [err |-> FALSE, stype |-> "wp", cache |-> SelectedCache]
                              ELSE [err |-> FALSE, stype |-> t, cache |-> SelectedCache]

C16_Witness ==
    /\ in_opts = {"php84", "wpredis"}
    /\ out_par = [err |-> FALSE, stype |-> "wp", cache |-> "wpredis"]

\* the pair the resolver must return for the type flags of the call
ReturnsType(t) == out_par = [err |-> FALSE, stype |-> t, cache |-> SelectedCache]

BaseCandidate(domain) ==
    LET replaced == [i \in 1..Len(domain) |->
                        IF domain[i] \in {".", "-"} THEN "_" ELSE domain[i]]
    IN SubSeq(replaced, 1, IF Len(replaced) > 32 THEN 32 ELSE Len(replaced))

\* C18: the database name provisioned for a domain (nothing typed at the
\* prompt) equals the base candidate when no database of the candidate's name
\* exists, and differs from the base candidate when one exists.
C18_BaseCandidateUnlessCollision ==
    (npc = "db" /\ n_typed = <<>>)
        => IF n_exists THEN db_out.name # BaseCandidate(n_domain)
                       ELSE db_out.name = BaseCandidate(n_domain)

\* the rule of the specification: lower-case the domain, then '.' becomes '-'
ExpectedPool(domain) ==
    [i \in 1..Len(domain) |->
        IF domain[i] = "." THEN "-" ELSE LowerChar(domain[i])]

ExpectedLength ==
    LET size == IF g_charset = None THEN 62 ELSE Len(g_charset)
    IN IF g_length <= size THEN g_length ELSE size

\* C20: generate_random(length, charset) returns exactly min(length, size of
\* charset) characters, each the character at a position of the charset, no
\* position used twice; with the default alphabet all characters of the
\* result are distinct.
C20_RandomSampleOfCharset ==
    (npc = "random")
        => /\ Len(g_out) = ExpectedLength
           /\ Len(g_picks) = Len(g_out)
           /\ \A i \in 1..Len(g_out) :
                 /\ g_picks[i] \in 1..Len(Population(g_charset))
                 /\ g_out[i] = Population(g_charset)[g_picks[i]]
           /\ \A i \in 1..Len(g_out), j \in 1..Len(g_out) :
                 g_picks[i] = g_picks[j] => i = j
           /\ g_charset = None
                => \A i \in 1..Len(g_out), j \in 1..Len(g_out) :
                      g_out[i] = g_out[j] => i = j

\* four characters asked of a three-position charset: three come back, the
\* repeated character once for each of its positions
C20_Witness ==
    /\ npc = "random"
    /\ g_length = 4
    /\ Len(Population(g_charset)) = 3
    /\ Len(g_out) = 3
    /\ g_out[1] = "a"
    /\ g_out[3] = "a"

(***************************************************************************)
(* Properties of one autoupdate run (checked under SpecRun)                *)
(***************************************************************************)
\* the last _acquire_lock call met a written lock file
MetLock == racq.path # NoLock /\ racq.before.exists /\ racq.before.written

\* ... whose timestamp is older than max_age and whose owner does not exist
MetOldDead ==
    /\ MetLock
    /\ RunNow - racq.before.ts > max_age_sec
    /\ racq.before.creator \notin RunLive

\* ... whose owner is alive and whose age is below max_age
MetLiveFresh ==
    /\ MetLock
    /\ RunNow - racq.before.ts < max_age_sec
    /\ racq.before.creator \in RunLive

\* C21: _acquire_lock on a lock file older than max_age whose owner pid does
\* not exist replaces it by a lock of the caller and returns True; on a lock
\* file whose owner is alive and whose age is below max_age it returns False
\* and leaves the file as it was.
C21_StaleReclaimedLiveKept ==
    /\ MetOldDead => /\ racq.got
                     /\ racq.after = Written(RunPid, RunNow)
                     /\ racq.after # racq.before
    /\ MetLiveFresh => /\ ~racq.got
                       /\ racq.after = racq.before

\* the run found the global lock of a dead process, hours old, and took it
C21_Witness ==
    /\ racq.path = global_lock
    /\ racq.before = Written(DeadPid, OldTs)
    /\ racq.got
    /\ rfiles[global_lock] = Written(RunPid, RunNow)

\* the run's own lock file is at path l
OwnLockAt(l) == rfiles[l].exists /\ rfiles[l].creator = RunPid

\* C22: when the run has terminated, whether it returned, an exception was
\* caught or a process exit went through the finally blocks, it holds no lock
\* and no lock file of its own is left; and a backup, update or restore of a
\* site is only ever started while the run holds that site's lock.
C22_LocksReleasedAndHeldForWork ==
    /\ [](rpc = "done" => /\ rheld = {}
                          /\ \A l \in RunLockPaths : ~OwnLockAt(l))
    /\ [][rops' # rops =>
            /\ site_lock(rsite) \in rheld
            /\ OwnLockAt(site_lock(rsite))
            /\ global_lock \in rheld
            /\ \A i \in (Len(rops) + 1)..Len(rops') : rops'[i][1] = rsite]_vars

\* a run that ended by a process exit raised after a site's backup and update
C22_Witness ==
    /\ rpc = "done"
    /\ rexit
    /\ Len(rops) >= 2
    /\ rheld = {}
    /\ \A l \in RunLockPaths : ~rfiles[l].exists

\* _acquire_lock has just refused the lock of the site the loop is at
LockRefused ==
    /\ rpc = "site_finally"
    /\ racq.path = site_lock(rsite)
    /\ ~racq.got

SkippedLocked(r) == r.status = "skip" /\ r.reason = "locked"

\* C23: when the lock of a site is refused the run records the site as
\* skipped, does no backup, update or restore for it, and goes on with the
\* remaining targets.
C23_LockedSiteSkippedRunGoesOn ==
    /\ [](/\ LockRefused => /\ rsummary # <<>>
                            /\ rsummary[Len(rsummary)].site = rsite
                            /\ SkippedLocked(rsummary[Len(rsummary)])
          /\ \A i \in 1..Len(rsummary) :
                SkippedLocked(rsummary[i])
                   => \A j \in 1..Len(rops) : rops[j][1] # rsummary[i].site)
    /\ [][(LockRefused /\ rpc' # rpc) =>
             /\ rpc' = "loop"
             /\ rtargets' = rtargets
             /\ rops' = rops]_vars

\* the first site was skipped as locked and the second one was then updated
C23_Witness ==
    /\ Len(rsummary) >= 2
    /\ SkippedLocked(rsummary[1])
    /\ rsummary[2].status = "ok"
    /\ \E j \in 1..Len(rops) : rops[j] = <<rsummary[2].site, "update">>

\* C28: when the lock of a site is held by another live process and
\* _acquire_lock returns False, the holder's lock file is still there,
\* unchanged, when the run moves on to the next site.
C28_RefusedLockFileLeftInPlace ==
    (/\ rpc = "loop"
     /\ racq.path = site_lock(rsite)
     /\ ~racq.got
     /\ racq.before.creator = LivePid)
        => rfiles[racq.path] = racq.before

(***************************************************************************)
(* Properties of site clone (checked under SpecClone)                      *)
(***************************************************************************)
\* C24: when a step of site clone fails after the destination vhost has been
\* rendered, the destination's vhost file, webroot, database and registry
\* entry are gone when the command has terminated.
C24_FailedCloneLeavesNothing ==
    (kpc \in {LogError, Unhandled} /\ kfailed \in CloneLateSteps)
        => /\ ~kres.vhost
           /\ ~kres.webroot
           /\ ~kres.db
           /\ ~kreg

(***************************************************************************)
(* Further properties of site create (checked under Spec)                  *)
(***************************************************************************)
\* C29: when the database step fails, also after `create database` has
\* succeeded (the user creation or the grant fails), no database made by the
\* run is left once the command has terminated.
C29_NoDatabaseLeftByFailedRun ==
    (Terminated /\ failed = "setupdatabase") => ~res.db

\* place of a forward call in default()
StepRank(c) ==
    CASE c = "setupdomain" -> 1
      [] c = "addNewSite" -> 2
      [] c = "setupdatabase" -> 3
      [] c \in {"updateSiteInfo", "wo-config", "setupwordpress"} -> 4
      [] c = "setup_php_fpm" -> 5
      [] c = "reload_service" -> 6
      [] c = "setwebrootpermissions" -> 7
      [] OTHER -> 8

DbBacked == stype \in {"mysql"} \cup WpFamily

ReportedByProcessSite(r) ==
    /\ r.reason # "locked"
    /\ r.error \notin {"site not found", "exception"}

OpsOf(site, what) == {i \in 1..Len(rops) : rops[i] = <<site, what>>}

C26_BackupBeforeUpdateFailureReported ==
    \A s \in RunSites :
      /\ \A i \in OpsOf(s, "update") : \E j \in OpsOf(s, "backup") : j < i
      /\ OpsOf(s, "backup_failed") # {} =>
           /\ OpsOf(s, "update") = {}
           /\ \E k \in 1..Len(rsummary) :
                /\ rsummary[k].site = s
                /\ rsummary[k].status = "error"
                /\ rsummary[k].error = "backup failed"

\* ---------------------------------------------------------------------
\* C27  When applying the updates or the visual-regression check fails for a
\*      site, the run attempts to restore the archive made earlier in the
\*      run, reports status 'error' for the site, and reports rolled_back
\*      true only if the restore succeeded; rolled_back is never true for a
\*      site whose status is not 'error'.
\* ---------------------------------------------------------------------
\* a restore was attempted for the site: _process_site attempts one exactly
\* when the updates or the visual-regression check failed
RestoreAttempted(s) == OpsOf(s, "restore") \cup OpsOf(s, "restore_failed") # {}

C27_FailedUpdateRestoredAndReported ==
    /\ \A s \in RunSites :
         RestoreAttempted(s) =>
           /\ OpsOf(s, "backup") # {}
           /\ \E k \in 1..Len(rsummary) :
                /\ rsummary[k].site = s
                /\ rsummary[k].status = "error"
                /\ rsummary[k].rolled_back => OpsOf(s, "restore") # {}
    /\ \A k \in 1..Len(rsummary) :
         rsummary[k].rolled_back => rsummary[k].status = "error"

\* ---------------------------------------------------------------------
\* C31  Rollback compensates completed steps in reverse order of completion:
\*      the database and its user, created by the later database step, are
\*      dropped before the vhost file and the webroot, created by the
\*      earlier rendering step, are removed.
\* ---------------------------------------------------------------------
CallsOf(names) == {i \in 1..Len(calls) : calls[i] \in names}

C32_PoolRemovedOnLateFailure ==
    ( /\ cpc \in {LogError, Unhandled}
      /\ failed \in {"reload_service", "setwebrootpermissions"}
      /\ CallsOf({"setup_php_fpm"}) # {} )
        => ~res.pool

\* ---------------------------------------------------------------------
\* C33  A process's release never deletes a lock file written by a different
\*      process: after a holder's lock has been reclaimed as stale by a
\*      second process, the first process's later release leaves the second
\*      process's lock file in place.
\* ---------------------------------------------------------------------
\* p takes the step that calls _release_lock
Releases(p) ==
    /\ upc[p] \in {"site_finally", "global_release"}
    /\ upc'[p] # upc[p]

C33_ReleaseLeavesOthersLock ==
    [][\A p \in Runners, l \in LockPaths :
         ( /\ Releases(p)
           /\ Holds(p, l)
           /\ lockFile[l].exists
           /\ lockFile[l].creator # p )
             => lockFile'[l] = lockFile[l]]_vars

\* ---------------------------------------------------------------------
\* C34  A lock is never held forever by a dead process: if the process that
\*      created a lock file has terminated at any point, including between
\*      creating the file and writing its pid and timestamp into it, then
\*      some later acquire on that path succeeds.
\* ---------------------------------------------------------------------
\* the file at path l was created by a process that has terminated
DeadOwned(l) == lockFile[l].exists /\ lockFile[l].creator \notin alive

\* q begins _acquire_lock on path l
BeginsAcquire(q, l) == q \in alive /\ upc[q] = "acq_open" /\ upath[q] = l

C34_DeadOwnersLockReclaimed ==
    \A q \in Runners, l \in LockPaths :
        (DeadOwned(l) /\ BeginsAcquire(q, l))
          ~> (q \notin alive \/ \E r \in alive : Holds(r, l))

\* ---------------------------------------------------------------------
\* C35  If the nginx reload fails while creating a proxy, alias or subsite
\*      site, cleanup removes the vhost file and the webroot directory tree
\*      the run created and deletes the registry entry: none of them exists
\*      after the command has terminated.
\* ---------------------------------------------------------------------
C35_SpecialReloadFailureCleansAll ==
    ( /\ Terminated
      /\ failed = "reload_service"
      /\ data.kind \in SpecialKinds
      /\ ~pre.res.vhost /\ ~pre.res.webroot )
        => /\ ~res.vhost
           /\ ~res.webroot
           /\ ~registry.present

\* ---------------------------------------------------------------------
\* C36  Rollback of a failed site create removes only resources this run
\*      created: a webroot directory that existed for the domain before the
\*      run started (with no registry entry and no vhost file) is still
\*      there after the run has failed and cleaned up.
\* ---------------------------------------------------------------------
C36_OldWebrootSurvivesRollback ==
    ( /\ Terminated
      /\ failed \notin {"none", "validate_domain", "parent_check", "pre_run_checks"}
      /\ pre.res.webroot
      /\ ~pre.res.vhost
      /\ ~pre.registry.present )
        => res.webroot

\* ---------------------------------------------------------------------
\* C37  Whenever site create has terminated, on any path (success, handled
\*      failure or unhandled exception), the domain's vhost file exists if
\*      and only if the registry has an entry for the domain.
\* ---------------------------------------------------------------------
\* the run started on a host where vhost file and registry entry agree
StartedConsistent == pre.res.vhost <=> pre.registry.present

C37_VhostIffRegistryEntry ==
    (Terminated /\ StartedConsistent) => (res.vhost <=> registry.present)

\* ---------------------------------------------------------------------
\* C38  Two different valid domains never derive the same pool name, the
\*      same PHP-FPM system user or the same per-site autoupdate lock path.
\* ---------------------------------------------------------------------
\* a host name: labels of letters and hyphens joined by dots, no label
\* empty, none beginning or ending with a hyphen
ValidDomain(d) ==
    /\ Len(d) > 0
    /\ d[1] \notin {".", "-"}
    /\ d[Len(d)] \notin {".", "-"}
    /\ \A i \in 1..(Len(d) - 1) : ~(d[i] \in {".", "-"} /\ d[i + 1] \in {".", "-"})

C38_DerivedNamesDistinct ==
    (npc = "pool" /\ ValidDomain(n_domain)) =>
      \A other \in Domains :
        (ValidDomain(other) /\ other # n_domain) =>
          /\ pool_name(other) # pool_out.pool_name
          /\ php_fpm_user(pool_name(other)) # php_fpm_user(pool_out.pool_name)
          /\ autoupdate_site_lock(other) # autoupdate_site_lock(n_domain)

\* ---------------------------------------------------------------------
\* C39  The resolver returns the database-backed type mysql only when the
\*      mysql flag is active: no set of type flags made up solely of html,
\*      php and PHP-version flags resolves to mysql.
\* ---------------------------------------------------------------------
C39_MysqlOnlyWithMysqlFlag ==
    /\ (ParReturned /\ out_par.stype = "mysql") => "mysql" \in in_opts
    /\ (TypeReturned /\ out_type.stype = "mysql") => "mysql" \in in_opts

\* ---------------------------------------------------------------------
\* C40  A failure while processing one site of an autoupdate batch (backup
\*      failure, update failure or an exception) does not stop the batch:
\*      every remaining target is still processed, every target gets
\*      exactly one entry in the summary, and the summary is written at the
\*      end of the run.
\* ---------------------------------------------------------------------
EntriesOf(site) == {k \in 1..Len(rsummary) : rsummary[k].site = site}

C40_FailureDoesNotStopBatch ==
    /\ [](rpc = "site_finally" => Cardinality(EntriesOf(rsite)) = 1)
    /\ [][(rpc = "site_finally" /\ rpc' # rpc)
            => (rpc' = "loop" /\ rtargets' = rtargets)]_vars
    /\ [][(rpc \in {"loop", "site_finally"} /\ rpc' = "global_release")
            => (rpc = "loop" /\ rtargets = <<>>)]_vars

====
